---- MODULE Spec2Model ----
(***************************************************************************)
(* A model of formalfinance: the filing data model and its canonical form  *)
(* (models.py), the rule engine and its trace (engine.py, tracing.py), the *)
(* rules the properties below exercise (rules.py, rules_ixbrl.py), the     *)
(* certificate subsystem (certificate.py) and the two callers that issue   *)
(* certificates after a validation run (evidence.py, api.py).              *)
(*                                                                         *)
(* Conventions.  A Python dict is a sequence of <<key, value>> pairs in    *)
(* insertion order with pairwise different keys.  Python's None in a       *)
(* str-or-None field is the string None below; a field that holds values   *)
(* of several Python types (Fact.value, Fact.decimals) holds a tagged      *)
(* record.  Numbers are exact: a numeric fact value v stands for v/10, and *)
(* tolerances are kept in the same unit (tenths).  sha256 and HMAC-SHA256  *)
(* are collision-free symbolic functions of their arguments.               *)
(***************************************************************************)
EXTENDS Integers, Sequences, FiniteSets, TLC

VARIABLES
    obj,          \* the raw (JSON-decoded) filing object handed to the program
    obj2,         \* a second raw filing object: obj with its lists reordered
    filing,       \* Filing.from_dict(obj), or NoValue
    filing2,      \* Filing.from_dict(obj2), or NoValue
    roundTrip,    \* Filing.from_dict(filing.canonical_object()), or NoValue
    run,          \* the call of ValidationEngine.validate on filing and its outcome
    run2,         \* the call of ValidationEngine.validate on filing2 and its outcome
    issued,       \* the call of issue_certificate on run's result and its outcome
    pack,         \* the call of build_evidence_pack on filing and its outcome
    http,         \* the call of handle(POST /v1/certify) on obj and its outcome
    cert,         \* the certificate dict at hand (issued, signed, or altered)
    signed,       \* the latest call of sign_certificate and its outcome
    verification, \* the call of verify_certificate on cert and its outcome
    proof,        \* the call of build_proof_bundle and its outcome
    replay,       \* the call of replay_proof_bundle and its outcome
    scaling,      \* a call of _to_scaled_int and its outcome
    cycleRun,     \* a run of TaxonomyCalculationNoCycleRule and its outcome
    ruleRun,      \* a run of one rule on a filing and its outcome
    engine,       \* a ValidationEngine that several calls of validate share
    calls,        \* the calls of validate on engine, each with its local variables
    readiness,    \* the call of build_readiness_report and its outcome
    service,      \* the FormalFinanceService: its limiter, its store and its log
    response,     \* the latest request handled by service and its response
    triage,       \* the triage dict of a report
    update        \* the latest call of apply_triage_update and its outcome

vars == <<obj, obj2, filing, filing2, roundTrip, run, run2, issued, pack, http,
          cert, signed, verification, proof, replay, scaling, cycleRun, ruleRun,
          engine, calls, readiness, service, response, triage, update>>

\* The variables of the proof bundle, the scaling and the taxonomy rule
laterVars == <<proof, replay, scaling, cycleRun>>

\* The variables of the filing, the engine and the certificate
firstVars == <<obj, obj2, filing, filing2, roundTrip, run, run2, issued, pack, http,
               cert, signed, verification>>

\* The variables of the readiness report, the service and the triage
tailVars == <<readiness, service, response, triage, update>>

\* The variables of the single rules and of the shared engine, and tailVars
lastVars == <<ruleRun, engine, calls, tailVars>>

-----------------------------------------------------------------------------
(* Bounds of the model *)

MaxFacts == 2
MaxRules == 2
MaxPermFacts == 3

-----------------------------------------------------------------------------
(* Python values *)

None == "None"
NoValue == [t |-> "novalue"]

PyNone == [t |-> "none"]
PyInt(i) == [t |-> "int", i |-> i]
PyStr(s) == [t |-> "str", s |-> s]

\* bool(x) for a str-or-None field
Truthy(s) == s # None /\ s # ""

\* The strings the model sorts, in Python's (code point) order.
StrOrder == <<"", "a", "b", "c", "c1", "c2", "cX", "d1", "d2",
              "fact-000001", "fact-000002", "fact-000003", "fact-000004",
              "fact-000005", "fact-000006">>

StrRank(s) == CHOOSE i \in 1..Len(StrOrder) : StrOrder[i] = s

StrLess(s, t) == StrRank(s) < StrRank(t)

RECURSIVE InsertSorted(_, _)
\* Insert the pair x behind every pair whose key is not greater: with the left
\* fold of SortedPairs this is a stable sort, as Python's sorted() is.
InsertSorted(x, s) ==
    IF s = <<>> THEN <<x>>
    ELSE IF StrLess(x[1], Head(s)[1]) THEN <<x>> \o s
    ELSE <<Head(s)>> \o InsertSorted(x, Tail(s))

RECURSIVE SortedPairs(_)
\* sorted(pairs, key=lambda p: p[0])
SortedPairs(s) ==
    IF s = <<>> THEN <<>>
    ELSE InsertSorted(s[Len(s)], SortedPairs(SubSeq(s, 1, Len(s) - 1)))

\* dict(sorted(d.items())): the same pairs, inserted in key order
SortedDict(d) == SortedPairs(d)

DictKeys(d) == {d[i][1] : i \in 1..Len(d)}

\* d[k], for a key d has
DictGet(d, k) == d[CHOOSE i \in 1..Len(d) : d[i][1] = k][2]

\* Python's == on two dicts: the same keys with the same values, in any order
DictEq(d, e) == {d[i] : i \in 1..Len(d)} = {e[i] : i \in 1..Len(e)}

-----------------------------------------------------------------------------
(* Data model: models.py *)

\* f"fact-{index:06d}"
FactIdText(index) == StrOrder[StrRank("fact-000001") + index - 1]

_fact_id(raw_id, index) == IF Truthy(raw_id) THEN raw_id ELSE FactIdText(index)

\* str.lower() on the texts the model feeds in
Lower(s) ==
    CASE s = "Instant" -> "instant"
      [] s = "Duration" -> "duration"
      [] s = "Bearer" -> "bearer"
      [] s = "Resolved" -> "resolved"
      [] s = "Error" -> "error"
      [] OTHER -> s

\* Context.from_dict(ctx_id, obj)
ContextFromDict(ctx_id, o) ==
    LET lowered == Lower(o.period_type)
        period_type == IF lowered \in {"instant", "duration"} THEN lowered
                       ELSE IF Truthy(o.instant) THEN "instant" ELSE "duration"
    IN  [id |-> ctx_id,
         period_type |-> period_type,
         instant |-> o.instant,
         start_date |-> o.start_date,
         end_date |-> o.end_date,
         dimensions |-> o.dimensions]

\* Fact.from_dict(obj, index)
FactFromDict(o, index) ==
    [id |-> _fact_id(o.id, index),
     concept |-> o.concept,
     context_id |-> o.context_id,
     value |-> o.value,
     unit |-> o.unit,
     decimals |-> o.decimals,
     dimensions |-> o.dimensions,
     source |-> o.source]

\* Filing.from_dict(obj).  The Filing dataclass has exactly these seven fields.
FilingFromDict(o) ==
    [accession |-> o.accession,
     cik |-> o.cik,
     entity |-> o.entity,
     period_end |-> o.period_end,
     taxonomy |-> o.taxonomy,
     contexts |-> [i \in 1..Len(o.contexts) |->
                     <<o.contexts[i][1],
                       ContextFromDict(o.contexts[i][1], o.contexts[i][2])>>],
     facts |-> [i \in 1..Len(o.facts) |-> FactFromDict(o.facts[i], i)]]

\* The attributes a Filing object has; reading any other raises AttributeError.
FilingAttributes ==
    {"accession", "cik", "entity", "period_end", "taxonomy", "contexts", "facts"}

\* Filing.canonical_object(): contexts sorted by id, facts sorted (stably) by id,
\* dimension and source maps key-sorted.
CanonicalObject(f) ==
    LET byId == SortedPairs([i \in 1..Len(f.contexts) |->
                               <<f.contexts[i][2].id, f.contexts[i][2]>>])
        facts == SortedPairs([i \in 1..Len(f.facts) |->
                                <<f.facts[i].id, f.facts[i]>>])
    IN  [accession |-> f.accession,
         cik |-> f.cik,
         entity |-> f.entity,
         period_end |-> f.period_end,
         taxonomy |-> f.taxonomy,
         contexts |-> [i \in 1..Len(byId) |->
                         <<byId[i][2].id,
                           [period_type |-> byId[i][2].period_type,
                            instant |-> byId[i][2].instant,
                            start_date |-> byId[i][2].start_date,
                            end_date |-> byId[i][2].end_date,
                            dimensions |-> SortedDict(byId[i][2].dimensions)]>>],
         facts |-> [i \in 1..Len(facts) |->
                      [id |-> facts[i][2].id,
                       concept |-> facts[i][2].concept,
                       context_id |-> facts[i][2].context_id,
                       unit |-> facts[i][2].unit,
                       decimals |-> facts[i][2].decimals,
                       value |-> facts[i][2].value,
                       dimensions |-> SortedDict(facts[i][2].dimensions),
                       source |-> SortedDict(facts[i][2].source)]]]

\* json.dumps(canonical, sort_keys=True, separators=(",", ":")): every dict is
\* written in key order, lists in list order.
JsonDumpsCanonical(c) ==
    LET ctxs == SortedDict(c.contexts)
    IN  [c EXCEPT
           !.contexts = [i \in 1..Len(ctxs) |->
                           <<ctxs[i][1],
                             [ctxs[i][2] EXCEPT
                                !.dimensions = SortedDict(ctxs[i][2].dimensions)]>>],
           !.facts = [i \in 1..Len(c.facts) |->
                        [c.facts[i] EXCEPT
                           !.dimensions = SortedDict(c.facts[i].dimensions),
                           !.source = SortedDict(c.facts[i].source)]]]

\* sha256(bytes).hexdigest(): a text, one for every different argument
Sha256(bytes) == [t |-> "sha256", of |-> bytes]

\* Filing.input_digest()
InputDigest(f) == Sha256(JsonDumpsCanonical(CanonicalObject(f)))

\* Fact.numeric_value(), in tenths; NoNumber stands for None
NoNumber == [t |-> "none"]

\* float("NaN")
NaN == [t |-> "nan"]

\* (bool is not a number; a string is a number when the fact has a unit or
\* decimals and float() reads it: of the strings the model uses only "NaN" is)
NumericValue(fact) ==
    CASE fact.value.t = "int" -> PyInt(fact.value.i)
      [] fact.value = PyStr("NaN")
           /\ ~(fact.unit = None /\ fact.decimals = PyNone) -> NaN
      [] OTHER -> NoNumber

\* Fact.canonical_key()
CanonicalKey(fact) ==
    <<fact.concept, fact.context_id,
      IF Truthy(fact.unit) THEN fact.unit ELSE "",
      SortedDict(fact.dimensions)>>

-----------------------------------------------------------------------------
(* Rules: rules.py, rules_ixbrl.py *)

\* Finding(rule_id, severity, message, fact_ids, details)
Finding(rule_id, severity, message, fact_ids, details) ==
    [rule_id |-> rule_id, severity |-> severity, message |-> message,
     fact_ids |-> fact_ids, details |-> details]

\* What rule.run(filing) does: it returns a list of findings or raises.
Returned(findings) == [raised |-> None, findings |-> findings]
Raised(exc) == [raised |-> exc, findings |-> <<>>]

RECURSIVE Pow10(_)
Pow10(n) == IF n = 0 THEN 1 ELSE 10 * Pow10(n - 1)

Abs(x) == IF x < 0 THEN -x ELSE x

\* _value_tolerance_for_fact(fact) = 0.5 * 10 ** (-decimals), in tenths; the
\* model's integer decimals are <= 0, its string decimals are "INF"
_value_tolerance_for_fact(fact) ==
    CASE fact.decimals.t = "none" -> 0
      [] fact.decimals.t = "str" -> 0
      [] fact.decimals.t = "int" -> 5 * Pow10(-fact.decimals.i)

\* _value_matches(prior, current)
_value_matches(prior, current) ==
    LET prior_num == NumericValue(prior)
        current_num == NumericValue(current)
    IN  IF prior_num # NoNumber /\ current_num # NoNumber
        THEN /\ prior_num # NaN /\ current_num # NaN
             /\ Abs(prior_num.i - current_num.i)
                  <= _value_tolerance_for_fact(prior)
                       + _value_tolerance_for_fact(current)
        ELSE prior.value = current.value

\* ContextReferenceRule.run with the slip of returning at the first unknown
\* context
RECURSIVE ContextReferenceRun_StopsAtFirst(_, _)
ContextReferenceRun_StopsAtFirst(f, i) ==
    IF i > Len(f.facts) THEN <<>>
    ELSE IF f.facts[i].context_id \notin DictKeys(f.contexts)
    THEN <<Finding("ixbrl.context_reference_exists", "error",
                   <<"references unknown context", f.facts[i].id,
                     f.facts[i].context_id>>,
                   <<f.facts[i].id>>, <<>>)>>
    ELSE ContextReferenceRun_StopsAtFirst(f, i + 1)

\* ContextReferenceRule.run
RECURSIVE ContextReferenceRun(_, _)
ContextReferenceRun(f, i) ==
    IF i > Len(f.facts) THEN <<>>
    ELSE (IF f.facts[i].context_id \notin DictKeys(f.contexts)
          THEN <<Finding("ixbrl.context_reference_exists", "error",
                         <<"references unknown context", f.facts[i].id,
                           f.facts[i].context_id>>,
                         <<f.facts[i].id>>, <<>>)>>
          ELSE <<>>)
         \o ContextReferenceRun(f, i + 1)

\* DuplicateFactConflictRule.run: every fact is compared with the first fact
\* seen under its key (seen[key] is set once and never replaced)
RECURSIVE DuplicateFactConflictRun(_, _, _)
DuplicateFactConflictRun(f, i, seen) ==
    IF i > Len(f.facts) THEN <<>>
    ELSE LET fact == f.facts[i]
             key == CanonicalKey(fact)
         IN  IF key \notin DictKeys(seen)
             THEN DuplicateFactConflictRun(f, i + 1, Append(seen, <<key, fact>>))
             ELSE LET prior == DictGet(seen, key)
                  IN  (IF ~_value_matches(prior, fact)
                       THEN <<Finding("xbrl.duplicate_fact_conflict", "error",
                                      <<"share key but differ", prior.id, fact.id>>,
                                      <<prior.id, fact.id>>,
                                      <<<<"prior_value", prior.value>>,
                                        <<"new_value", fact.value>>>>)>>
                       ELSE <<>>)
                      \o DuplicateFactConflictRun(f, i + 1, seen)

\* NegativeAssetsWarningRule.run
RECURSIVE NegativeAssetsWarningRun(_, _)
NegativeAssetsWarningRun(f, i) ==
    IF i > Len(f.facts) THEN <<>>
    ELSE LET fact == f.facts[i]
             value == NumericValue(fact)
         IN  (IF /\ fact.concept \in {"us-gaap:Assets", "ifrs-full:Assets"}
                 /\ value.t = "int"
                 /\ value.i < 0
              THEN <<Finding("acct.assets_negative", "warning",
                             <<"Assets fact is negative", fact.id, value.i>>,
                             <<fact.id>>, <<>>)>>
              ELSE <<>>)
             \o NegativeAssetsWarningRun(f, i + 1)

\* d[k] = v: a new key is inserted last, a known key keeps its place
DictSet(d, k, v) ==
    IF k \in DictKeys(d)
    THEN [i \in 1..Len(d) |-> IF d[i][1] = k THEN <<k, v>> ELSE d[i]]
    ELSE Append(d, <<k, v>>)

\* _rounding_tolerance(decimals) = 0.5 * 10 ** (-decimals), in tenths; the
\* model's integer decimals are <= 0, its string decimals are "INF"
_rounding_tolerance(decimals) ==
    CASE decimals.t = "none" -> 0
      [] decimals.t = "str" -> 0
      [] decimals.t = "int" -> 5 * Pow10(-decimals.i)

\* this_score >= prior_score for two abs(numeric_value): false when either
\* is NaN
ScoreAtLeast(this, prior) ==
    this # NaN /\ prior # NaN /\ Abs(this.i) >= Abs(prior.i)

\* _best_fact_by_context(facts, concepts): for every context the numeric fact
\* of these concepts with the greatest absolute value, the later one on a tie
RECURSIVE BestFactLoop(_, _, _, _)
BestFactLoop(facts, concepts, i, output) ==
    IF i > Len(facts) THEN output
    ELSE LET fact == facts[i]
         IN  IF fact.concept \notin concepts \/ NumericValue(fact) = NoNumber
             THEN BestFactLoop(facts, concepts, i + 1, output)
             ELSE IF fact.context_id \notin DictKeys(output)
             THEN BestFactLoop(facts, concepts, i + 1,
                               DictSet(output, fact.context_id, fact))
             ELSE IF ScoreAtLeast(NumericValue(fact),
                                  NumericValue(DictGet(output, fact.context_id)))
             THEN BestFactLoop(facts, concepts, i + 1,
                               DictSet(output, fact.context_id, fact))
             ELSE BestFactLoop(facts, concepts, i + 1, output)

_best_fact_by_context(facts, concepts) == BestFactLoop(facts, concepts, 1, <<>>)

assets_concepts == {"us-gaap:Assets", "ifrs-full:Assets"}
liabilities_concepts == {"us-gaap:Liabilities", "ifrs-full:Liabilities"}
equity_concepts ==
    {"us-gaap:StockholdersEquity",
     "us-gaap:StockholdersEquityIncludingPortionAttributableToNoncontrollingInterest",
     "ifrs-full:Equity"}

\* The elements of a sequence that are in a set, in the order of the sequence
RECURSIVE SelectIn(_, _)
SelectIn(seq, S) ==
    IF seq = <<>> THEN <<>>
    ELSE (IF Head(seq) \in S THEN <<Head(seq)>> ELSE <<>>) \o SelectIn(Tail(seq), S)

\* sorted(set(assets) & set(liabilities) & set(equity))
CommonContexts(assets, liabilities, equity) ==
    LET common == SelectIn([i \in 1..Len(assets) |-> assets[i][1]],
                           DictKeys(liabilities) \cap DictKeys(equity))
        sorted == SortedPairs([i \in 1..Len(common) |-> <<common[i], common[i]>>])
    IN  [i \in 1..Len(sorted) |-> sorted[i][1]]

\* abs(a_val - (l_val + e_val)) on floats, in tenths: NaN when one of them is
AbsDifference(a_val, l_val, e_val) ==
    IF NaN \in {a_val, l_val, e_val} THEN NaN
    ELSE PyInt(Abs(a_val.i - (l_val.i + e_val.i)))

\* BalanceSheetEquationRule.run
RECURSIVE BalanceSheetLoop(_, _, _, _, _)
BalanceSheetLoop(assets, liabilities, equity, common_contexts, k) ==
    IF k > Len(common_contexts) THEN <<>>
    ELSE LET context_id == common_contexts[k]
             a == DictGet(assets, context_id)
             l == DictGet(liabilities, context_id)
             e == DictGet(equity, context_id)
             diff == AbsDifference(NumericValue(a), NumericValue(l), NumericValue(e))
             tol == _rounding_tolerance(a.decimals) + _rounding_tolerance(l.decimals)
                      + _rounding_tolerance(e.decimals)
         IN  (IF diff = NaN \/ diff.i > tol
              THEN <<Finding("acct.balance_sheet_equation", "error",
                             <<"Balance sheet equation mismatch in context",
                               context_id, NumericValue(a), NumericValue(l),
                               NumericValue(e)>>,
                             <<a.id, l.id, e.id>>,
                             <<<<"difference", diff>>, <<"tolerance", tol>>>>)>>
              ELSE <<>>)
             \o BalanceSheetLoop(assets, liabilities, equity, common_contexts, k + 1)

BalanceSheetEquationRun(f) ==
    LET assets == _best_fact_by_context(f.facts, assets_concepts)
        liabilities == _best_fact_by_context(f.facts, liabilities_concepts)
        equity == _best_fact_by_context(f.facts, equity_concepts)
    IN  BalanceSheetLoop(assets, liabilities, equity,
                         CommonContexts(assets, liabilities, equity), 1)

\* InlineMetadataPresenceRule.run: its first statement reads filing.ixbrl
InlineMetadataPresenceRun(f) ==
    IF "ixbrl" \notin FilingAttributes THEN Raised("AttributeError")
    ELSE IF f.ixbrl # <<>> THEN Returned(<<>>)
    ELSE Returned(<<Finding("ixbrl.inline_metadata_presence", "error",
                            <<"Filing is missing ixbrl metadata">>, <<>>, <<>>)>>)

\* _is_calculation_arc(arcrole) on the arcroles of the model: summation-item
\* is a calculation arc, parent-child is not
SummationItem == "http://www.xbrl.org/2003/arcrole/summation-item"

ParentChild == "http://www.xbrl.org/2003/arcrole/parent-child"

_is_calculation_arc(arcrole) == arcrole = SummationItem

\* edges.setdefault(source, set()).add(target): a dict, in insertion order,
\* from a source to the set of its targets
RECURSIVE CalculationEdges(_, _)
CalculationEdges(relationships, k) ==
    IF k = 0 THEN <<>>
    ELSE LET edges == CalculationEdges(relationships, k - 1)
             rel == relationships[k]
             source == rel.from
             target == rel.to
         IN  IF ~_is_calculation_arc(rel.arcrole) \/ source = "" \/ target = ""
             THEN edges
             ELSE IF source \in DictKeys(edges)
             THEN DictSet(edges, source, DictGet(edges, source) \cup {target})
             ELSE Append(edges, <<source, {target}>>)

\* The elements of a set in the order a loop over it visits them: order
\* lists every name once
InOrder(order, S) == SelectSeq(order, LAMBDA x : x \in S)

IndexOf(seq, x) == CHOOSE i \in 1..Len(seq) : seq[i] = x /\ \A j \in 1..(i - 1) : seq[j] # x

\* dfs(node) and its loop over the children from the i-th on; st holds
\* visiting, visited, stack and findings
RECURSIVE Dfs(_, _, _, _)
RECURSIVE DfsChildren(_, _, _, _, _)
Dfs(edges, order, node, st) ==
    IF node \in st.visited \/ st.findings # <<>> THEN st
    ELSE LET entered == [st EXCEPT !.visiting = @ \cup {node},
                                   !.stack = Append(@, node)]
             children == InOrder(order, IF node \in DictKeys(edges)
                                        THEN DictGet(edges, node) ELSE {})
             after == DfsChildren(edges, order, children, 1, entered)
         IN  IF after.findings # <<>> THEN after
             ELSE [after EXCEPT !.stack = SubSeq(@, 1, Len(@) - 1),
                                !.visiting = @ \ {node},
                                !.visited = @ \cup {node}]

DfsChildren(edges, order, children, i, st) ==
    IF i > Len(children) THEN st
    ELSE LET child == children[i]
         IN  IF child \in st.visiting
             THEN LET cycle_start == IndexOf(st.stack, child)
                      cycle == Append(SubSeq(st.stack, cycle_start, Len(st.stack)), child)
                  IN  [st EXCEPT !.findings =
                         Append(@, Finding("taxonomy.calculation_no_cycles", "error",
                                           <<"Calculation relationship cycle detected.">>,
                                           <<>>, <<<<"cycle", cycle>>>>))]
             ELSE LET after == Dfs(edges, order, child, st)
                  IN  IF after.findings # <<>> THEN after
                      ELSE DfsChildren(edges, order, children, i + 1, after)

\* for node in list(edges): dfs(node); stop at the first finding
RECURSIVE DfsRoots(_, _, _, _)
DfsRoots(edges, order, k, st) ==
    IF k > Len(edges) \/ st.findings # <<>> THEN st
    ELSE DfsRoots(edges, order, k + 1, Dfs(edges, order, edges[k][1], st))

\* The findings of the rule for a list of relationships
CycleFindings(relationships, order) ==
    DfsRoots(CalculationEdges(relationships, Len(relationships)), order, 1,
             [visiting |-> {}, visited |-> {}, stack |-> <<>>,
              findings |-> <<>>]).findings

\* TaxonomyCalculationNoCycleRule.run: _taxonomy(filing), its first call,
\* reads filing.taxonomy_package
TaxonomyCalculationNoCycleRun(f, order) ==
    IF "taxonomy_package" \notin FilingAttributes THEN Raised("AttributeError")
    ELSE IF f.taxonomy_package = <<>> THEN Returned(<<>>)
    ELSE Returned(CycleFindings(f.taxonomy_package.relationships, order))

\* rule.run(filing) for the rule with this rule_id
RunRule(rule_id, f) ==
    CASE rule_id = "ixbrl.context_reference_exists" ->
           Returned(ContextReferenceRun(f, 1))
      [] rule_id = "xbrl.duplicate_fact_conflict" ->
           Returned(DuplicateFactConflictRun(f, 1, <<>>))
      [] rule_id = "acct.assets_negative" ->
           Returned(NegativeAssetsWarningRun(f, 1))
      [] rule_id = "ixbrl.inline_metadata_presence" ->
           InlineMetadataPresenceRun(f)
      [] rule_id = "acct.balance_sheet_equation" ->
           Returned(BalanceSheetEquationRun(f))
      [] rule_id = "taxonomy.calculation_no_cycles" ->
           TaxonomyCalculationNoCycleRun(f, <<"A", "B", "C">>)

RuleIds == {"ixbrl.context_reference_exists", "xbrl.duplicate_fact_conflict",
            "acct.assets_negative", "ixbrl.inline_metadata_presence"}

-----------------------------------------------------------------------------
(* Trace sink and engine: tracing.py, engine.py *)

\* TraceLogger.__post_init__: index 0, an empty file.  (Timestamps are left out
\* of the lines.)
NewTraceLogger == [index |-> 0, lines |-> <<>>]

\* Log with the slip of numbering a line before the counter is advanced
Log_StaleIndex(sink, event) ==
    IF sink = NoValue THEN sink
    ELSE [index |-> sink.index + 1,
          lines |-> Append(sink.lines, [index |-> sink.index] @@ event)]

\* logger.log(event_type, **payload): TraceLogger.log numbers and writes the
\* line; NoopTraceLogger.log (sink = NoValue) does nothing
Log(sink, event) ==
    IF sink = NoValue THEN sink
    ELSE [index |-> sink.index + 1,
          lines |-> Append(sink.lines, [index |-> sink.index + 1] @@ event)]

RECURSIVE LogFindings(_, _, _)
\* for finding in rule_findings: logger.log("finding", ...)
LogFindings(sink, rule_findings, i) ==
    IF i > Len(rule_findings) THEN sink
    ELSE LogFindings(
           Log(sink, [event_type |-> "finding",
                      rule_id |-> rule_findings[i].rule_id,
                      severity |-> rule_findings[i].severity,
                      message |-> rule_findings[i].message,
                      fact_ids |-> rule_findings[i].fact_ids,
                      details |-> rule_findings[i].details]),
           rule_findings, i + 1)

\* ValidationResult
ValidationResult(input_digest, executed_rules, findings) ==
    [input_digest |-> input_digest, executed_rules |-> executed_rules,
     findings |-> findings]

CountSeverity(findings, severity) ==
    Cardinality({i \in 1..Len(findings) : findings[i].severity = severity})

error_count(result) == CountSeverity(result.findings, "error")

warning_count(result) == CountSeverity(result.findings, "warning")

\* ValidationResult.status
status(result) == IF error_count(result) > 0 THEN "risk" ELSE "clean"

\* ValidationResult.as_report(profile)
as_report(result, profile) ==
    [schema_version |-> "formalfinance.report.v0",
     profile |-> profile,
     status |-> status(result),
     input_digest |-> result.input_digest,
     summary |-> <<<<"rules_executed", Len(result.executed_rules)>>,
                   <<"error_count", error_count(result)>>,
                   <<"warning_count", warning_count(result)>>>>,
     executed_rules |-> result.executed_rules,
     findings |-> result.findings]

RECURSIVE ValidateLoop(_, _, _, _, _, _)
\* The for loop of ValidationEngine.validate from rule number k on.  A fault of
\* rule.run leaves the loop and validate(): nothing is returned, and the sink
\* keeps the lines written so far.  (The description of rule.start is left
\* out of the lines.)
ValidateLoop(f, ruleList, k, executed, findings, sink) ==
    IF k > Len(ruleList)
    THEN [raised |-> None,
          result |-> ValidationResult(InputDigest(f), executed, findings),
          sink |-> Log(sink, [event_type |-> "validation.end",
                              total_findings |-> Len(findings)])]
    ELSE LET rule_id == ruleList[k]
             AfterRun(started, ran) ==
                 IF ran.raised # None
                 THEN [raised |-> ran.raised, result |-> NoValue, sink |-> started]
                 ELSE ValidateLoop(f, ruleList, k + 1, Append(executed, rule_id),
                                   findings \o ran.findings,
                                   LogFindings(
                                     Log(started,
                                         [event_type |-> "rule.end", rule_id |-> rule_id,
                                          finding_count |-> Len(ran.findings),
                                          severities |-> [i \in 1..Len(ran.findings) |->
                                                            ran.findings[i].severity]]),
                                     ran.findings, 1))
         IN  AfterRun(Log(sink, [event_type |-> "rule.start", rule_id |-> rule_id]),
                      RunRule(rule_id, f))

\* Validate with the slip of leaving the loop one rule early
Validate_StopsEarly(f, ruleList, sink) ==
    ValidateLoop(f, SubSeq(ruleList, 1, Len(ruleList) - 1), 1, <<>>, <<>>,
                 Log(sink, [event_type |-> "validation.start",
                            input_digest |-> InputDigest(f)]))

\* ValidationEngine(rules=ruleList).validate(filing, trace_logger=sink)
Validate(f, ruleList, sink) ==
    ValidateLoop(f, ruleList, 1, <<>>, <<>>,
                 Log(sink, [event_type |-> "validation.start",
                            input_digest |-> InputDigest(f)]))

-----------------------------------------------------------------------------
(* Certificates: certificate.py.  A certificate is a dict with string keys,   *)
(* here a function from its keys; its values are texts (PyStr, or the digest  *)
(* and MAC texts below), PyNone, or a nested dict (the signature block).      *)

ToolVersion == "__version__"

\* d.get(key)
Get(d, key) == IF key \in DOMAIN d THEN d[key] ELSE PyNone

\* isinstance(v, dict): the tagged values carry a field t, dicts do not
IsDict(v) == "t" \notin DOMAIN v

\* str(v or ""), for v None, a text or the number 0
StrOr(v) == IF v \in {PyNone, PyStr(""), PyInt(0)} THEN PyStr("") ELSE v

\* The model's text with a character outside ASCII
NonAsciiText == PyStr("<U+00E9>")

IsAscii(text) == text # NonAsciiText

\* hmac.compare_digest(a, b) on two str: TypeError unless both are ASCII
CompareDigest(a, b) ==
    IF IsAscii(a) /\ IsAscii(b) THEN [raised |-> None, equal |-> a = b]
    ELSE [raised |-> "TypeError", equal |-> FALSE]

\* json.dumps(payload, sort_keys=True, separators=(",", ":")).encode("utf-8")
_stable_json_bytes(payload) == [t |-> "json", of |-> payload]

\* _unsigned_certificate with the slip of keeping every key
_unsigned_certificate_KeepsSignature(certificate) == certificate

\* {key: value for key, value in certificate.items() if key != "signature"}
_unsigned_certificate(certificate) ==
    [key \in DOMAIN certificate \ {"signature"} |-> certificate[key]]

\* urlsafe_b64encode(hmac.new(secret, payload_bytes, sha256).digest()), unpadded
_sign_hs256(payload_bytes, signing_secret) ==
    [t |-> "hs256", key |-> signing_secret, of |-> payload_bytes]

\* "hmac-sha256:" + sha256(secret).hexdigest()[:16]
_default_key_id(signing_secret) == [t |-> "keyid", of |-> signing_secret]

\* sign_certificate(certificate, signing_secret=..., key_id=...) at time now
sign_certificate(certificate, signing_secret, key_id, now) ==
    IF ~Truthy(signing_secret) THEN [raised |-> "ValueError", value |-> NoValue]
    ELSE LET unsigned == _unsigned_certificate(certificate)
             payload_bytes == _stable_json_bytes(unsigned)
             block == [schema_version |-> PyStr("formalfinance.certificate_signature.v0"),
                       algorithm |-> PyStr("HS256"),
                       key_id |-> IF Truthy(key_id) THEN PyStr(key_id)
                                  ELSE _default_key_id(signing_secret),
                       payload_digest |-> Sha256(payload_bytes),
                       signed_at |-> PyStr(now),
                       value |-> _sign_hs256(payload_bytes, signing_secret)]
         IN  [raised |-> None,
              value |-> [key \in DOMAIN unsigned \cup {"signature"} |->
                           IF key = "signature" THEN block ELSE unsigned[key]]]

Check(check_id, passed, message) ==
    [check_id |-> check_id, passed |-> passed, message |-> message]

\* The checks of the branch `isinstance(signature, dict)` of verify_certificate,
\* in order; compare_digest may raise in the third and in the last of them.
SignatureChecks(signature, payload_bytes, signing_secret) ==
    LET digestCmp == CompareDigest(StrOr(Get(signature, "payload_digest")),
                                   Sha256(payload_bytes))
        valueCmp == CompareDigest(_sign_hs256(payload_bytes, signing_secret),
                                  StrOr(Get(signature, "value")))
        first == <<Check("signature_schema",
                         StrOr(Get(signature, "schema_version"))
                           = PyStr("formalfinance.certificate_signature.v0"),
                         "Signature schema version is recognized."),
                   Check("signature_algorithm",
                         StrOr(Get(signature, "algorithm")) = PyStr("HS256"),
                         "Signature algorithm is supported (HS256)."),
                   Check("signature_payload_digest", digestCmp.equal,
                         "Signature payload digest matches certificate payload digest.")>>
    IN  IF digestCmp.raised # None
        THEN [raised |-> digestCmp.raised, checks |-> <<>>]
        ELSE IF ~Truthy(signing_secret)
        THEN [raised |-> None,
              checks |-> Append(first,
                  Check("signature_secret_provided", FALSE,
                        "Certificate contains a signature but no signing secret was provided for verification."))]
        ELSE IF valueCmp.raised # None
        THEN [raised |-> valueCmp.raised, checks |-> <<>>]
        ELSE [raised |-> None,
              checks |-> Append(first,
                  Check("signature_value_match", valueCmp.equal,
                        "Signature value matches certificate payload and signing secret."))]

\* verify_certificate(certificate, signing_secret=..., require_signature=...)
verify_certificate(certificate, signing_secret, require_signature) ==
    LET head == <<Check("certificate_schema",
                        StrOr(Get(certificate, "schema_version"))
                          = PyStr("formalfinance.certificate.v0"),
                        "Certificate schema version is recognized."),
                  Check("certificate_verdict",
                        StrOr(Get(certificate, "verdict")) = PyStr("clean"),
                        "Certificate verdict is clean."),
                  Check("input_digest_present",
                        StrOr(Get(certificate, "input_digest")) # PyStr(""),
                        "Input digest is present."),
                  Check("rules_digest_present",
                        StrOr(Get(certificate, "rules_digest")) # PyStr(""),
                        "Rules digest is present.")>>
        signature == Get(certificate, "signature")
        payload_bytes == _stable_json_bytes(_unsigned_certificate(certificate))
        tail == IF ~IsDict(signature)
                THEN [raised |-> None,
                      checks |-> IF require_signature
                                 THEN <<Check("signature_present", FALSE,
                                              "Required signature block is missing from certificate.")>>
                                 ELSE <<Check("signature_optional", TRUE,
                                              "Certificate is unsigned and signature is optional.")>>]
                ELSE SignatureChecks(signature, payload_bytes, signing_secret)
        checks == head \o tail.checks
    IN  IF tail.raised # None THEN [raised |-> tail.raised, value |-> NoValue]
        ELSE [raised |-> None,
              value |-> [schema_version |-> "formalfinance.certificate_verification.v0",
                         verified |-> \A i \in 1..Len(checks) : checks[i].passed,
                         certificate_profile |-> Get(certificate, "profile"),
                         certificate_tool_version |-> Get(certificate, "tool_version"),
                         checks |-> checks]]

\* issue_certificate with the slip of leaving out the status guard and writing
\* the result's status as the verdict
issue_certificate_NoStatusGuard(profile, result, signing_secret, key_id, now) ==
    LET certificate ==
            [schema_version |-> PyStr("formalfinance.certificate.v0"),
             tool_version |-> PyStr(ToolVersion),
             issued_at |-> PyStr(now),
             profile |-> PyStr(profile),
             input_digest |-> result.input_digest,
             rules_digest |-> Sha256(<<"join", result.executed_rules>>),
             verdict |-> PyStr(status(result))]
    IN  IF Truthy(signing_secret)
        THEN sign_certificate(certificate, signing_secret, key_id, now)
        ELSE [raised |-> None, value |-> certificate]

\* issue_certificate(profile, result, signing_secret=..., key_id=...) at time now
issue_certificate(profile, result, signing_secret, key_id, now) ==
    IF status(result) # "clean" THEN [raised |-> "ValueError", value |-> NoValue]
    ELSE LET certificate ==
                 [schema_version |-> PyStr("formalfinance.certificate.v0"),
                  tool_version |-> PyStr(ToolVersion),
                  issued_at |-> PyStr(now),
                  profile |-> PyStr(profile),
                  input_digest |-> result.input_digest,
                  rules_digest |-> Sha256(<<"join", result.executed_rules>>),
                  verdict |-> PyStr("clean")]
         IN  IF Truthy(signing_secret)
             THEN sign_certificate(certificate, signing_secret, key_id, now)
             ELSE [raised |-> None, value |-> certificate]

-----------------------------------------------------------------------------
(* Decimal arithmetic as proof.py uses it.  A Decimal is its as_tuple():     *)
(* sign, coefficient digits and exponent; its value is                       *)
(* (-1)^sign * digits * 10^exp.  Arithmetic results are rounded to the       *)
(* precision of the default context, half to even.                           *)

\* decimal.getcontext().prec
DecimalPrec == 28

DecimalNaN == [t |-> "decnan"]

Decimal(sign, digits, exp) == [sign |-> sign, digits |-> digits, exp |-> exp]

Zeros(n) == [i \in 1..n |-> 0]

RECURSIVE StripLeadingZeros(_)
StripLeadingZeros(digits) ==
    IF Len(digits) > 1 /\ Head(digits) = 0 THEN StripLeadingZeros(Tail(digits))
    ELSE digits

\* The number of zeros at the end of digits
RECURSIVE TrailingZeros(_)
TrailingZeros(digits) ==
    IF digits = <<>> \/ digits[Len(digits)] # 0 THEN 0
    ELSE 1 + TrailingZeros(SubSeq(digits, 1, Len(digits) - 1))

\* digits + 1
RECURSIVE IncDigits(_)
IncDigits(digits) ==
    IF digits = <<>> THEN <<1>>
    ELSE IF digits[Len(digits)] < 9
    THEN [digits EXCEPT ![Len(digits)] = @ + 1]
    ELSE Append(IncDigits(SubSeq(digits, 1, Len(digits) - 1)), 0)

\* The first keep digits, rounded half to even on the digits left out
RoundHalfEven(digits, keep) ==
    LET kept == IF keep = 0 THEN <<0>> ELSE SubSeq(digits, 1, keep)
        rest == SubSeq(digits, keep + 1, Len(digits))
        up == /\ rest # <<>>
              /\ \/ rest[1] > 5
                 \/ /\ rest[1] = 5
                    /\ \/ \E i \in 2..Len(rest) : rest[i] # 0
                       \/ kept[Len(kept)] % 2 = 1
    IN  IF up THEN IncDigits(kept) ELSE kept

\* Rounding of an exact result to the context precision
ContextRound(d) ==
    LET digits == StripLeadingZeros(d.digits)
        excess == Len(digits) - DecimalPrec
    IN  IF excess <= 0 THEN Decimal(d.sign, digits, d.exp)
        ELSE LET r == RoundHalfEven(digits, DecimalPrec)
             IN  IF Len(r) > DecimalPrec
                 THEN Decimal(d.sign, SubSeq(r, 1, DecimalPrec), d.exp + excess + 1)
                 ELSE Decimal(d.sign, r, d.exp + excess)

\* The same number without leading and trailing zeros; zero is 0E0
Reduced(d) ==
    LET digits == StripLeadingZeros(d.digits)
        z == TrailingZeros(digits)
    IN  IF digits = <<0>> THEN Decimal(0, <<0>>, 0)
        ELSE Decimal(d.sign, SubSeq(digits, 1, Len(digits) - z), d.exp + z)

\* a == b on two finite Decimals
DecimalEq(a, b) == Reduced(a) = Reduced(b)

\* value.normalize()
Normalize(value) ==
    LET r == Reduced(ContextRound(value))
    IN  IF r.digits = <<0>> THEN Decimal(value.sign, <<0>>, 0) ELSE r

\* value * Decimal(10 ** scale_power)
TimesPowerOfTen(value, scale_power) ==
    ContextRound(Decimal(value.sign, value.digits \o Zeros(scale_power), value.exp))

\* value.to_integral_value()
ToIntegralValue(value) ==
    IF value.exp >= 0 THEN value
    ELSE LET n == -value.exp
             padded == IF n > Len(value.digits)
                       THEN Zeros(n - Len(value.digits)) \o value.digits
                       ELSE value.digits
         IN  Decimal(value.sign,
                     StripLeadingZeros(RoundHalfEven(padded, Len(padded) - n)), 0)

\* int(value) for an integral Decimal, as a Decimal of exponent 0
IntOf(value) ==
    Decimal(value.sign, StripLeadingZeros(value.digits \o Zeros(value.exp)), 0)

\* _decimal_places(value): int(exponent) raises ValueError for the exponent
\* 'n' of a NaN
_decimal_places(value) ==
    IF value = DecimalNaN THEN [raised |-> "ValueError", value |-> NoValue]
    ELSE LET exponent == Normalize(value).exp
         IN  [raised |-> None, value |-> IF -exponent > 0 THEN -exponent ELSE 0]

\* _to_scaled_int(value, scale) for scale = 10 ** scale_power
_to_scaled_int(value, scale_power) ==
    LET scaled == TimesPowerOfTen(value, scale_power)
        integral == ToIntegralValue(scaled)
    IN  IF ~DecimalEq(scaled, integral)
        THEN [raised |-> "ValueError", value |-> NoValue]
        ELSE [raised |-> None, value |-> IntOf(integral)]

\* The digits of a natural number
RECURSIVE DigitsOf(_)
DigitsOf(n) == IF n < 10 THEN <<n>> ELSE Append(DigitsOf(n \div 10), n % 10)

\* The Decimal of a number of the model (n tenths)
DecimalOfTenths(n) == Decimal(IF n < 0 THEN 1 ELSE 0, DigitsOf(Abs(n)), -1)

\* The number a sequence of digits writes
RECURSIVE NumberOf(_)
NumberOf(digits) ==
    IF digits = <<>> THEN 0
    ELSE 10 * NumberOf(SubSeq(digits, 1, Len(digits) - 1)) + digits[Len(digits)]

\* A Python int held as a Decimal of exponent 0, as a number of the model
IntValue(d) == IF d.sign = 1 THEN -NumberOf(d.digits) ELSE NumberOf(d.digits)

-----------------------------------------------------------------------------
(* Proof bundles: proof.py.  A proof and an arithmetic claim are dicts with   *)
(* string keys, here functions from their keys.  A Decimal of a claim is a    *)
(* number of the model (tenths), or DecimalNaN; str(Decimal) is DecimalText.  *)

\* str(value) of a finite Decimal, and what Decimal(text) reads back from it
DecimalText(tenths) == [t |-> "dectext", tenths |-> tenths]

\* _decimal_from_fact_value(fact): a number of the model, DecimalNaN or None
_decimal_from_fact_value(fact) ==
    CASE fact.value.t = "int" -> PyInt(fact.value.i)
      [] fact.value = PyStr("NaN") -> DecimalNaN
      [] OTHER -> NoNumber

\* max(_decimal_places(item) for item in all_values): ValueError at a NaN
RECURSIVE MaxDecimalPlaces(_)
MaxDecimalPlaces(all_values) ==
    IF all_values = <<>> THEN [raised |-> None, value |-> 0]
    ELSE LET Larger(first, others) ==
                 IF first.raised # None THEN first
                 ELSE IF others.raised # None THEN others
                 ELSE [raised |-> None,
                       value |-> IF first.value > others.value THEN first.value
                                 ELSE others.value]
         IN  Larger(_decimal_places(IF Head(all_values) = DecimalNaN THEN DecimalNaN
                                    ELSE DecimalOfTenths(Head(all_values).i)),
                    MaxDecimalPlaces(Tail(all_values)))

\* The claim of one context, or the exception that ends _balance_sheet_claims
BalanceSheetClaim(context_id, assets_fact, liabilities_fact, equity_fact) ==
    LET Scaled(v, scale_power) == _to_scaled_int(DecimalOfTenths(v.i), scale_power.value)
        Claim(assets_val, liabilities_val, equity_val, difference, tolerance,
              scale_power, assets_scaled, liabilities_scaled, equity_scaled,
              difference_scaled, tolerance_scaled) ==
            IF \E scaled \in {assets_scaled, liabilities_scaled, equity_scaled,
                              difference_scaled, tolerance_scaled} :
                  scaled.raised # None
            THEN [raised |-> "ValueError", skipped |-> FALSE, claim |-> NoValue]
            ELSE [raised |-> None, skipped |-> FALSE,
                  claim |->
                    [claim_id |-> <<"acct.balance_sheet_equation:", context_id>>,
                     rule_id |-> "acct.balance_sheet_equation",
                     context_id |-> context_id,
                     fact_ids |-> <<assets_fact.id, liabilities_fact.id, equity_fact.id>>,
                     assets |-> DecimalText(assets_val.i),
                     liabilities |-> DecimalText(liabilities_val.i),
                     equity |-> DecimalText(equity_val.i),
                     difference |-> DecimalText(difference.i),
                     tolerance |-> DecimalText(tolerance.i),
                     within_tolerance |-> difference.i <= tolerance.i,
                     lean |-> [scale |-> Pow10(scale_power.value),
                               assets_scaled |-> IntValue(assets_scaled.value),
                               liabilities_scaled |-> IntValue(liabilities_scaled.value),
                               equity_scaled |-> IntValue(equity_scaled.value),
                               difference_scaled |-> IntValue(difference_scaled.value),
                               tolerance_scaled |-> IntValue(tolerance_scaled.value)]]]
        AtScale(assets_val, liabilities_val, equity_val, difference, tolerance,
                scale_power) ==
            IF scale_power.raised # None
            THEN [raised |-> scale_power.raised, skipped |-> FALSE, claim |-> NoValue]
            ELSE Claim(assets_val, liabilities_val, equity_val, difference, tolerance,
                       scale_power, Scaled(assets_val, scale_power),
                       Scaled(liabilities_val, scale_power),
                       Scaled(equity_val, scale_power),
                       Scaled(difference, scale_power), Scaled(tolerance, scale_power))
        WithDifference(assets_val, liabilities_val, equity_val, difference, tolerance) ==
            AtScale(assets_val, liabilities_val, equity_val, difference, tolerance,
                    MaxDecimalPlaces(<<assets_val, liabilities_val, equity_val,
                                       tolerance, difference>>))
        WithValues(assets_val, liabilities_val, equity_val, tolerance) ==
            IF NoNumber \in {assets_val, liabilities_val, equity_val}
            THEN [raised |-> None, skipped |-> TRUE, claim |-> NoValue]
            ELSE WithDifference(assets_val, liabilities_val, equity_val,
                                IF DecimalNaN \in {assets_val, liabilities_val, equity_val}
                                THEN DecimalNaN
                                ELSE PyInt(Abs(assets_val.i
                                                 - (liabilities_val.i + equity_val.i))),
                                tolerance)
    IN  WithValues(_decimal_from_fact_value(assets_fact),
                   _decimal_from_fact_value(liabilities_fact),
                   _decimal_from_fact_value(equity_fact),
                   PyInt(_rounding_tolerance(assets_fact.decimals)
                           + _rounding_tolerance(liabilities_fact.decimals)
                           + _rounding_tolerance(equity_fact.decimals)))

RECURSIVE BalanceSheetClaimsLoop(_, _, _, _, _)
BalanceSheetClaimsLoop(assets, liabilities, equity, common_contexts, k) ==
    IF k > Len(common_contexts) THEN [raised |-> None, claims |-> <<>>]
    ELSE LET context_id == common_contexts[k]
             Claims(one, others) ==
                 IF one.raised # None THEN [raised |-> one.raised, claims |-> <<>>]
                 ELSE IF others.raised # None THEN others
                 ELSE [raised |-> None,
                       claims |-> (IF one.skipped THEN <<>> ELSE <<one.claim>>)
                                    \o others.claims]
         IN  Claims(BalanceSheetClaim(context_id, DictGet(assets, context_id),
                                      DictGet(liabilities, context_id),
                                      DictGet(equity, context_id)),
                    BalanceSheetClaimsLoop(assets, liabilities, equity,
                                           common_contexts, k + 1))

\* _balance_sheet_claims(filing)
_balance_sheet_claims(f) ==
    LET assets == _best_fact_by_context(f.facts, assets_concepts)
        liabilities == _best_fact_by_context(f.facts, liabilities_concepts)
        equity == _best_fact_by_context(f.facts, equity_concepts)
    IN  BalanceSheetClaimsLoop(assets, liabilities, equity,
                               CommonContexts(assets, liabilities, equity), 1)

\* build_proof_bundle(filing=, profile=, report=, result=, certificate=) at
\* time now; certificate is a certificate or PyNone
build_proof_bundle(f, profile, report, result, certificate, now) ==
    LET Bundle(claims) ==
            LET proof_dict ==
                    [schema_version |-> PyStr("formalfinance.proof_bundle.v0"),
                     generated_at |-> PyStr(now),
                     profile |-> PyStr(profile),
                     status |-> PyStr(report.status),
                     input_digest |-> result.input_digest,
                     report_digest |-> Sha256(_stable_json_bytes(report)),
                     report_summary |-> report.summary,
                     executed_rules |-> result.executed_rules,
                     findings_digest |->
                         Sha256(_stable_json_bytes([findings |-> report.findings])),
                     arithmetic_claims |-> claims.claims]
            IN  IF claims.raised # None
                THEN [raised |-> claims.raised, value |-> NoValue]
                ELSE IF certificate = PyNone
                THEN [raised |-> None, value |-> proof_dict]
                ELSE [raised |-> None,
                      value |-> [certificate_digest |->
                                   Sha256(_stable_json_bytes(certificate))]
                                  @@ proof_dict]
    IN  Bundle(_balance_sheet_claims(f))

\* _build_lean_script(proof): one theorem
\* absDiff assets liabilities equity <= tolerance per claim, on the scaled
\* integers; here the theorems as the truth values lean decides
_build_lean_script(proof_dict) ==
    LET claims == proof_dict.arithmetic_claims
    IN  [i \in 1..Len(claims) |->
           Abs(claims[i].lean.assets_scaled
                 - (claims[i].lean.liabilities_scaled + claims[i].lean.equity_scaled))
             <= claims[i].lean.tolerance_scaled]

\* What subprocess.run([lean_bin, script]) can do: FileNotFoundError,
\* TimeoutExpired, or lean runs and exits
LeanOutcomes == {"not_found", "timeout", "runs"}

\* run_lean_replay(proof, lean_bin=, timeout_seconds=) in an environment where
\* the subprocess has this outcome
run_lean_replay(proof_dict, outcome) ==
    LET script == _build_lean_script(proof_dict)
    IN  CASE outcome = "not_found" ->
               [status |-> "unavailable",
                message |-> "Lean binary was not found on PATH.",
                return_code |-> PyNone]
          [] outcome = "timeout" ->
               [status |-> "error", message |-> "Lean replay timed out.",
                return_code |-> PyNone]
          [] outcome = "runs" /\ \A i \in 1..Len(script) : script[i] ->
               [status |-> "ok", message |-> "Lean replay succeeded.",
                return_code |-> PyInt(0)]
          [] OTHER ->
               [status |-> "error", message |-> "Lean replay failed.",
                return_code |-> PyInt(1)]

\* _check of replay_proof_bundle: details are written only when given
ProofCheck(check_id, passed, message, details) ==
    IF details = PyNone THEN Check(check_id, passed, message)
    ELSE [check_id |-> check_id, passed |-> passed, message |-> message,
          details |-> details]

\* list(x or []) for the executed_rules of a proof or a report
ListOr(v) == IF v = PyNone THEN <<>> ELSE v

\* The checks of `if report is not None`
ReportChecks(proof_dict, report) ==
    IF report = PyNone THEN <<>>
    ELSE LET proof_rules == ListOr(Get(proof_dict, "executed_rules"))
             report_rules == ListOr(Get(report, "executed_rules"))
         IN  <<ProofCheck("report_digest_match",
                          Sha256(_stable_json_bytes(report))
                            = StrOr(Get(proof_dict, "report_digest")),
                          "Report digest matches proof payload.", PyNone),
               ProofCheck("report_input_digest_match",
                          StrOr(Get(report, "input_digest"))
                            = StrOr(Get(proof_dict, "input_digest")),
                          "Report input digest matches proof input digest.", PyNone),
               ProofCheck("executed_rules_match", proof_rules = report_rules,
                          "Executed rule sequence matches between report and proof.",
                          [proof_rules |-> Len(proof_rules),
                           report_rules |-> Len(report_rules)])>>

\* Decimal(str(claim.get(key))) reads the text of a Decimal; any other value
\* raises InvalidOperation
Parses(claim, key) == key \in DOMAIN claim /\ claim[key].t = "dectext"

\* ClaimCheck with the slip of passing every claim whose numbers can be read,
\* whatever within_tolerance it records
ClaimCheck_TrustsRecorded(claim) ==
    LET claim_id == IF "claim_id" \in DOMAIN claim THEN claim.claim_id ELSE "unknown"
    IN  IF \A key \in {"assets", "liabilities", "equity", "tolerance"} :
              Parses(claim, key)
        THEN ProofCheck(<<"claim:", claim_id>>, TRUE,
                        "Arithmetic claim replayed with expected result.", PyNone)
        ELSE ProofCheck(<<"claim:", claim_id>>, FALSE, "Arithmetic claim is invalid",
                        PyNone)

\* The check of one claim: the body of `for claim in claims`, try and except
ClaimCheck(claim) ==
    LET claim_id == IF "claim_id" \in DOMAIN claim THEN claim.claim_id ELSE "unknown"
    IN  IF \A key \in {"assets", "liabilities", "equity", "tolerance"} :
              Parses(claim, key)
        THEN LET expected_within == claim.within_tolerance
                 recomputed == Abs(claim.assets.tenths
                                     - (claim.liabilities.tenths + claim.equity.tenths))
                                 <= claim.tolerance.tenths
             IN  ProofCheck(<<"claim:", claim_id>>, recomputed = expected_within,
                            "Arithmetic claim replayed with expected result.",
                            [expected |-> expected_within, recomputed |-> recomputed])
        ELSE ProofCheck(<<"claim:", claim_id>>, FALSE, "Arithmetic claim is invalid",
                        PyNone)

\* CertificateChecks with the slip of raising when a certificate is required
\* and none is given
CertificateChecks_RaisesWhenRequired(proof_dict, certificate, signing_secret, require_certificate_signature) ==
    IF certificate = PyNone
    THEN [raised |-> IF require_certificate_signature THEN "ValueError" ELSE None,
          checks |-> <<>>]
    ELSE [raised |-> None,
          checks |-> <<ProofCheck("certificate_signature_verify",
                                  verify_certificate(certificate, signing_secret,
                                      require_certificate_signature).value.verified,
                                  "Certificate signature verification succeeded.",
                                  PyNone)>>]

\* The checks of `if certificate is not None: ... elif require_...`;
\* compare_digest and verify_certificate may raise
CertificateChecks(proof_dict, certificate, signing_secret, require_certificate_signature) ==
    LET Checks(expected_digest, digestCmp, verification_) ==
            IF expected_digest # PyStr("") /\ digestCmp.raised # None
            THEN [raised |-> digestCmp.raised, checks |-> <<>>]
            ELSE IF verification_.raised # None
            THEN [raised |-> verification_.raised, checks |-> <<>>]
            ELSE [raised |-> None,
                  checks |->
                    (IF expected_digest # PyStr("")
                     THEN <<ProofCheck("certificate_digest_match", digestCmp.equal,
                                       "Certificate digest matches proof payload.",
                                       PyNone)>>
                     ELSE <<>>)
                      \o <<ProofCheck("certificate_signature_verify",
                                      verification_.value.verified,
                                      "Certificate signature verification succeeded.",
                                      [verification |-> verification_.value])>>]
    IN  IF certificate = PyNone
        THEN [raised |-> None,
              checks |-> IF require_certificate_signature
                         THEN <<ProofCheck("certificate_required", FALSE,
                                           "Certificate signature was required but no certificate payload was provided.",
                                           PyNone)>>
                         ELSE <<>>]
        ELSE Checks(StrOr(Get(proof_dict, "certificate_digest")),
                    CompareDigest(StrOr(Get(proof_dict, "certificate_digest")),
                                  Sha256(_stable_json_bytes(certificate))),
                    verify_certificate(certificate, signing_secret,
                                       require_certificate_signature))

\* The three checks every replay starts with
ProofChecks(proof_dict) ==
    <<ProofCheck("proof_schema",
                 StrOr(Get(proof_dict, "schema_version"))
                   = PyStr("formalfinance.proof_bundle.v0"),
                 "Proof schema version is recognized.", PyNone),
      ProofCheck("proof_input_digest",
                 StrOr(Get(proof_dict, "input_digest")) # PyStr(""),
                 "Proof input digest is present.", PyNone),
      ProofCheck("proof_report_digest",
                 StrOr(Get(proof_dict, "report_digest")) # PyStr(""),
                 "Proof report digest is present.", PyNone)>>

\* The check of every claim, in order
ClaimChecks(claims) == [i \in 1..Len(claims) |-> ClaimCheck(claims[i])]

\* The end of replay_proof_bundle: the lean check when asked for, verified
\* and the result; before: the checks made before the certificate's
ReplayResult(before, certificateChecks, run_lean, lean) ==
    LET checks == before \o certificateChecks.checks
                    \o (IF run_lean
                        THEN <<ProofCheck("lean_replay", lean.status = "ok",
                                          lean.message,
                                          [return_code |-> lean.return_code])>>
                        ELSE <<>>)
    IN  IF certificateChecks.raised # None
        THEN [raised |-> certificateChecks.raised, value |-> NoValue]
        ELSE [raised |-> None,
              value |-> [schema_version |-> "formalfinance.proof_replay.v0",
                         verified |-> \A i \in 1..Len(checks) : checks[i].passed,
                         checks |-> checks,
                         lean |-> IF run_lean THEN lean ELSE PyNone]]

\* replay_proof_bundle with the slip of leaving out the executed_rules_match
\* check
replay_proof_bundle_NoRulesCheck(proof_dict, report, certificate, signing_secret, require_certificate_signature, run_lean, outcome) ==
    ReplayResult(ProofChecks(proof_dict)
                   \o (IF report = PyNone THEN <<>>
                       ELSE SubSeq(ReportChecks(proof_dict, report), 1, 2))
                   \o ClaimChecks(proof_dict.arithmetic_claims),
                 CertificateChecks(proof_dict, certificate, signing_secret,
                                   require_certificate_signature),
                 run_lean, run_lean_replay(proof_dict, outcome))

\* replay_proof_bundle(proof, report=, certificate=, signing_secret=,
\* require_certificate_signature=, run_lean=) where the lean subprocess has
\* this outcome; report and certificate are dicts or PyNone
replay_proof_bundle(proof_dict, report, certificate, signing_secret, require_certificate_signature, run_lean, outcome) ==
    ReplayResult(ProofChecks(proof_dict) \o ReportChecks(proof_dict, report)
                   \o ClaimChecks(proof_dict.arithmetic_claims),
                 CertificateChecks(proof_dict, certificate, signing_secret,
                                   require_certificate_signature),
                 run_lean, run_lean_replay(proof_dict, outcome))

-----------------------------------------------------------------------------
(* Profiles: profiles.py *)

\* normalize_profile_name: strip, lower, ALIASES
normalize_profile_name(profile_name) ==
    CASE profile_name = "ixbrl_gating" -> "ixbrl-gating"
      [] profile_name = "fsd_consistency" -> "fsd-consistency"
      [] profile_name = "companyfacts_consistency" -> "companyfacts-consistency"
      [] OTHER -> profile_name

\* The rule lists of PROFILE_BUILDERS, cut down to the rules modelled above, in
\* the order of the source.
_core_structural_rules ==
    <<"ixbrl.context_reference_exists", "xbrl.duplicate_fact_conflict">>

_ixbrl_preflight_rules == <<"ixbrl.inline_metadata_presence">>

_ixbrl_gating_rules == _core_structural_rules \o _ixbrl_preflight_rules

_fsd_consistency_rules ==
    _ixbrl_gating_rules \o <<"acct.assets_negative", "acct.balance_sheet_equation">>

_companyfacts_consistency_rules ==
    _core_structural_rules
      \o <<"acct.assets_negative", "acct.balance_sheet_equation">>

\* get_profile(profile_name)
get_profile(profile_name) ==
    LET profile == normalize_profile_name(profile_name)
    IN  CASE profile = "ixbrl-gating" ->
               [raised |-> None, rules |-> _ixbrl_gating_rules]
          [] profile = "fsd-consistency" ->
               [raised |-> None, rules |-> _fsd_consistency_rules]
          [] profile = "companyfacts-consistency" ->
               [raised |-> None, rules |-> _companyfacts_consistency_rules]
          [] OTHER -> [raised |-> "ValueError", rules |-> <<>>]

-----------------------------------------------------------------------------
(* Callers that validate and then certify: evidence.py, api.py *)

\* run_validation(filing, profile, trace_path)
run_validation(f, profile, traced) ==
    LET ReportOf(ran) ==
            IF ran.raised # None
            THEN [raised |-> ran.raised, report |-> NoValue, result |-> NoValue]
            ELSE [raised |-> None, report |-> as_report(ran.result, profile),
                  result |-> ran.result]
        WithProfile(got) ==
            IF got.raised # None
            THEN [raised |-> got.raised, report |-> NoValue, result |-> NoValue]
            ELSE ReportOf(Validate(f, got.rules,
                                     IF traced THEN NewTraceLogger ELSE NoValue))
    IN  WithProfile(get_profile(profile))

\* build_evidence_pack(filing, profile, output_dir, include_certificate).
\* files: the artifacts written before it returns or raises.
build_evidence_pack(f, profile, include_certificate) ==
    LET normalized_profile == normalize_profile_name(profile)
        failed(exc, files) ==
            [raised |-> exc, files |-> files, certificate |-> NoValue,
             status |-> None, certificate_path |-> None]
        written == {"report.json", "trace.jsonl", "summary.md", "summary.html",
                    "triage.json", "manifest.json"}
        Pack(v, certify, certificate) ==
            IF v.raised = "ValueError" THEN failed(v.raised, {})
            ELSE IF v.raised # None THEN failed(v.raised, {"trace.jsonl"})
            \* _write_markdown_summary reads report["summary"]["risk_score"]
            ELSE IF "risk_score" \notin DictKeys(v.report.summary)
            THEN failed("KeyError", {"report.json", "trace.jsonl"})
            ELSE IF certify /\ certificate.raised # None
            THEN failed(certificate.raised, written \ {"manifest.json"})
            ELSE [raised |-> None,
                  files |-> written \cup (IF certify THEN {"certificate.json"} ELSE {}),
                  certificate |-> IF certify THEN certificate.value ELSE NoValue,
                  status |-> v.report.status,
                  certificate_path |-> IF certify THEN "certificate.json" ELSE None]
        AfterValidation(v) ==
            Pack(v, include_certificate /\ v.report.status = "clean",
                 issue_certificate(normalized_profile, v.result, None, None, "t1"))
    IN  AfterValidation(run_validation(f, normalized_profile, TRUE))

\* FormalFinanceService.handle for POST /v1/certify with a JSON object payload
\* {filing, profile}, past the allowlist, rate limit and authorization; the
\* advisory generator is disabled (its default) and no proof is asked for.
\* issuedCertificate: what issue_certificate returned inside the handler.
handle_certify(filing_obj, profile_name, signing_secret) ==
    LET profile == normalize_profile_name(profile_name)
        answer(code, body, certificate) ==
            [raised |-> None, code |-> code, body |-> body,
             issuedCertificate |-> certificate]
        failed(exc, certificate) ==
            [raised |-> exc, code |-> 0, body |-> NoValue,
             issuedCertificate |-> certificate]
        Respond(v, clean, certificate) ==
            IF v.raised # None THEN failed(v.raised, NoValue)
            ELSE IF clean /\ certificate.raised # None
            THEN failed(certificate.raised, NoValue)
            \* the metadata of _log_run reads report["summary"]["risk_score"]
            ELSE IF "risk_score" \notin DictKeys(v.report.summary)
            THEN failed("KeyError", IF clean THEN certificate.value ELSE NoValue)
            ELSE answer(200,
                        IF clean
                        THEN [report |-> v.report, certificate |-> certificate.value]
                        ELSE [report |-> v.report, certificate |-> PyNone,
                              certificate_status |-> "not_issued"],
                        IF clean THEN certificate.value ELSE NoValue)
        AfterValidation(v) ==
            Respond(v, v.report.status = "clean",
                    issue_certificate(profile, v.result, signing_secret, None, "t1"))
    IN  AfterValidation(run_validation(FilingFromDict(filing_obj), profile, FALSE))

-----------------------------------------------------------------------------
(* Inputs *)

\* All sequences over S of length at most n
SeqUpTo(S, n) == UNION {[1..k -> S] : k \in 0..n}

InstantContext ==
    [period_type |-> "instant", instant |-> "2025-12-31", start_date |-> None,
     end_date |-> None, dimensions |-> <<>>]

RawFact(id, context_id, value) ==
    [id |-> id, concept |-> "us-gaap:Assets", context_id |-> context_id,
     value |-> PyInt(value), unit |-> "USD", decimals |-> PyInt(0),
     dimensions |-> <<>>, source |-> <<>>]

RawFiling(contexts, facts) ==
    [accession |-> None, cik |-> None, entity |-> None, period_end |-> None,
     taxonomy |-> None, contexts |-> contexts, facts |-> facts]

\* Filing objects for the engine: Assets facts without ids, in a known or an
\* unknown context, worth -1.0, 0.0 or 2.0 at decimals 0
EngineFacts == {RawFact(None, c, v) : c \in {"c1", "cX"}, v \in {-10, 0, 20}}

EngineObjects ==
    {RawFiling(<<<<"c1", InstantContext>>>>, facts) :
       facts \in SeqUpTo(EngineFacts, MaxFacts)}

\* Any list of rules may be given to ValidationEngine, repeats included
RuleLists == SeqUpTo(RuleIds, MaxRules)

ProfileNames == {"ixbrl_gating", "fsd-consistency", "companyfacts-consistency",
                 "no-such-profile"}

Secrets == {"k1", "k2"}

Times == {"t1", "t2"}

-----------------------------------------------------------------------------
(* Spec: one filing is loaded and then validated and certified, directly, by  *)
(* build_evidence_pack or by POST /v1/certify                                 *)

UnsetLast ==
    /\ ruleRun = NoValue
    /\ engine = NoValue /\ calls = NoValue
    /\ readiness = NoValue /\ service = NoValue /\ response = NoValue
    /\ triage = NoValue /\ update = NoValue

Unset ==
    /\ filing = NoValue /\ filing2 = NoValue
    /\ roundTrip = NoValue /\ run = NoValue /\ run2 = NoValue
    /\ issued = NoValue /\ pack = NoValue /\ http = NoValue
    /\ cert = NoValue /\ signed = NoValue /\ verification = NoValue
    /\ proof = NoValue /\ replay = NoValue
    /\ scaling = NoValue /\ cycleRun = NoValue
    /\ UnsetLast

Init ==
    /\ obj \in EngineObjects
    /\ obj2 = NoValue
    /\ Unset

\* filing = Filing.from_dict(obj)
LoadFiling ==
    /\ filing = NoValue
    /\ http = NoValue
    /\ filing' = FilingFromDict(obj)
    /\ UNCHANGED laterVars
    /\ UNCHANGED <<obj, obj2, filing2, roundTrip, run, run2, issued, pack, http,
                   cert, signed, verification>>
    /\ UNCHANGED lastVars

\* ValidationEngine(ruleList).validate(filing[, TraceLogger(path)])
RunValidate ==
    /\ filing # NoValue
    /\ run = NoValue /\ pack = NoValue
    /\ \E ruleList \in RuleLists, traced \in BOOLEAN :
         run' = [rules |-> ruleList, traced |-> traced]
                  @@ Validate(filing, ruleList,
                              IF traced THEN NewTraceLogger ELSE NoValue)
    /\ UNCHANGED laterVars
    /\ UNCHANGED <<obj, obj2, filing, filing2, roundTrip, run2, issued, pack,
                   http, cert, signed, verification>>
    /\ UNCHANGED lastVars

\* issue_certificate(profile, result, signing_secret=...) on a returned result
IssueCertificate ==
    /\ run # NoValue
    /\ run.raised = None
    /\ issued = NoValue
    /\ \E profile \in {"fsd-consistency", "ixbrl-gating"},
          signing_secret \in {None} \cup Secrets, now \in Times :
         LET out == issue_certificate(profile, run.result, signing_secret, None, now)
         IN  /\ issued' = [profile |-> profile,
                           signing_secret |-> signing_secret] @@ out
             /\ cert' = out.value
    /\ UNCHANGED laterVars
    /\ UNCHANGED <<obj, obj2, filing, filing2, roundTrip, run, run2, pack, http,
                   signed, verification>>
    /\ UNCHANGED lastVars

\* build_evidence_pack(filing, profile, output_dir)
BuildEvidencePack ==
    /\ filing # NoValue
    /\ run = NoValue /\ pack = NoValue
    /\ \E profile \in ProfileNames :
         pack' = [profile |-> profile] @@ build_evidence_pack(filing, profile, TRUE)
    /\ UNCHANGED laterVars
    /\ UNCHANGED <<obj, obj2, filing, filing2, roundTrip, run, run2, issued,
                   http, cert, signed, verification>>
    /\ UNCHANGED lastVars

\* POST /v1/certify {"filing": obj, "profile": profile}
HandleCertify ==
    /\ filing = NoValue
    /\ http = NoValue
    /\ \E profile \in ProfileNames, signing_secret \in {None, "k1"} :
         http' = [profile |-> profile, signing_secret |-> signing_secret]
                   @@ handle_certify(obj, profile, signing_secret)
    /\ UNCHANGED laterVars
    /\ UNCHANGED <<obj, obj2, filing, filing2, roundTrip, run, run2, issued,
                   pack, cert, signed, verification>>
    /\ UNCHANGED lastVars

Next ==
    \/ LoadFiling
    \/ RunValidate
    \/ IssueCertificate
    \/ BuildEvidencePack
    \/ HandleCertify

Spec == Init /\ [][Next]_vars

-----------------------------------------------------------------------------
(* Properties of the engine and of certificate issuance, under Spec *)

Validated == run # NoValue /\ run.raised = None

\* C1: the status of every validation result is a function of its two counts:
\* clean iff there is no error and no warning, review iff there is no error
\* and at least one warning, risk iff there is an error.
C1_StatusFromCounts ==
    Validated =>
      LET r == run.result
      IN  /\ status(r) = "clean" <=> (error_count(r) = 0 /\ warning_count(r) = 0)
          /\ status(r) = "review" <=> (error_count(r) = 0 /\ warning_count(r) > 0)
          /\ status(r) = "risk" <=> error_count(r) > 0

\* C2: issue_certificate raises ValueError and returns nothing for a result
\* whose status is not clean; for a clean result it returns a certificate with
\* verdict clean, the result's input digest and the given profile name.
C2_IssueOnlyWhenClean ==
    issued # NoValue =>
      IF status(run.result) # "clean"
      THEN issued.raised = "ValueError" /\ issued.value = NoValue /\ cert = NoValue
      ELSE /\ issued.raised = None
           /\ issued.value.verdict = PyStr("clean")
           /\ issued.value.input_digest = run.result.input_digest
           /\ issued.value.profile = PyStr(issued.profile)
           /\ cert = issued.value

C2_Witness ==
    /\ issued # NoValue
    /\ status(run.result) = "risk"
    /\ issued.raised = "ValueError"

NoFindingsOf(result) == error_count(result) = 0 /\ warning_count(result) = 0

\* C3: a certificate exists only for a run without error and without warning,
\* whether issue_certificate is called directly, by build_evidence_pack or by
\* POST /v1/certify; for any other run build_evidence_pack returns
\* certificate_path = None and /v1/certify answers 200 with certificate null
\* and certificate_status "not_issued".
C3_CertificateOnlyForCleanRun ==
    /\ (issued # NoValue /\ issued.raised = None) => NoFindingsOf(run.result)
    /\ pack # NoValue =>
         LET v == run_validation(filing, normalize_profile_name(pack.profile), TRUE)
         IN  v.raised = None =>
               /\ pack.certificate # NoValue => NoFindingsOf(v.result)
               /\ ~NoFindingsOf(v.result) =>
                    pack.raised = None /\ pack.certificate_path = None
    /\ http # NoValue =>
         LET v == run_validation(FilingFromDict(obj),
                                 normalize_profile_name(http.profile), FALSE)
         IN  v.raised = None =>
               /\ http.issuedCertificate # NoValue => NoFindingsOf(v.result)
               /\ ~NoFindingsOf(v.result) =>
                    /\ http.raised = None
                    /\ http.code = 200
                    /\ http.body.certificate = PyNone
                    /\ http.body.certificate_status = "not_issued"

RECURSIVE FindingsInRuleOrder(_, _, _)
\* The findings of the rules from number k on, each rule's findings in the
\* order the rule returned them
FindingsInRuleOrder(ruleList, f, k) ==
    IF k > Len(ruleList) THEN <<>>
    ELSE RunRule(ruleList[k], f).findings \o FindingsInRuleOrder(ruleList, f, k + 1)

\* C4: on return of validate, executed_rules is the list of the profile's rule
\* ids in list order, repeats kept, and findings is the concatenation of the
\* rules' findings in that order.
C4_RulesRunOnceInOrder ==
    Validated =>
      /\ run.result.executed_rules = run.rules
      /\ run.result.findings = FindingsInRuleOrder(run.rules, filing, 1)

C4_Witness ==
    /\ Validated
    /\ Len(run.rules) = 2
    /\ run.rules[1] = run.rules[2]
    /\ Len(run.result.findings) = 2

Lines == run.sink.lines

EventsOfType(type) == {i \in 1..Len(Lines) : Lines[i].event_type = type}

\* The rule.start line of the k-th rule is the k-th rule.start line
StartOfRule(k) ==
    CHOOSE i \in EventsOfType("rule.start") :
      Cardinality({j \in EventsOfType("rule.start") : j <= i}) = k

\* C5: with a trace sink, the lines are numbered 1, 2, 3, ...; the first is
\* validation.start with the input digest and the last validation.end with the
\* number of findings of the result; there is one rule.start per rule, in
\* profile order, directly followed by the rule.end of the same rule, whose
\* finding_count is the number of findings the rule returned, directly followed
\* by that many finding lines of that rule; and there are as many finding lines
\* as findings in the result.
C5_TraceWellFormed ==
    (Validated /\ run.traced) =>
      /\ \A i \in 1..Len(Lines) : Lines[i].index = i
      /\ run.sink.index = Len(Lines)
      /\ Lines[1].event_type = "validation.start"
      /\ Lines[1].input_digest = run.result.input_digest
      /\ EventsOfType("validation.start") = {1}
      /\ Lines[Len(Lines)].event_type = "validation.end"
      /\ Lines[Len(Lines)].total_findings = Len(run.result.findings)
      /\ EventsOfType("validation.end") = {Len(Lines)}
      /\ Cardinality(EventsOfType("rule.start")) = Len(run.rules)
      /\ Cardinality(EventsOfType("rule.end")) = Len(run.rules)
      /\ Cardinality(EventsOfType("finding")) = Len(run.result.findings)
      /\ \A k \in 1..Len(run.rules) :
           LET p == StartOfRule(k)
               n == Len(RunRule(run.rules[k], filing).findings)
           IN  /\ Lines[p].rule_id = run.rules[k]
               /\ Lines[p + 1].event_type = "rule.end"
               /\ Lines[p + 1].rule_id = run.rules[k]
               /\ Lines[p + 1].finding_count = n
               /\ \A j \in 1..n :
                    /\ Lines[p + 1 + j].event_type = "finding"
                    /\ Lines[p + 1 + j].rule_id = run.rules[k]
               /\ Lines[p + 2 + n].event_type \in {"rule.start", "validation.end"}

C5_Witness ==
    /\ Validated /\ run.traced
    /\ Len(run.rules) = 2
    /\ run.rules[1] # run.rules[2]
    /\ \A k \in 1..2 : Len(RunRule(run.rules[k], filing).findings) >= 1

\* C6: when the rule at position i raises, validate raises the same fault,
\* returns no result, and the rules after position i do not run (the last
\* trace line is the rule.start of rule i); and no condition of the filing
\* data makes a rule raise: it is reported as findings.
C6_FaultsPropagateDataNeverRaises ==
    run # NoValue =>
      /\ run.raised # None =>
           /\ run.result = NoValue
           /\ \E i \in 1..Len(run.rules) :
                /\ RunRule(run.rules[i], filing).raised = run.raised
                /\ \A j \in 1..(i - 1) : RunRule(run.rules[j], filing).raised = None
                /\ run.traced =>
                     /\ Lines[Len(Lines)].event_type = "rule.start"
                     /\ Lines[Len(Lines)].rule_id = run.rules[i]
                     /\ Cardinality(EventsOfType("rule.start")) = i
      /\ run.raised = None

-----------------------------------------------------------------------------
(* SpecCanon: a filing object and a reordering of it are loaded, brought to  *)
(* canonical form and validated                                              *)

Orderings(n) == {p \in [1..n -> 1..n] : \A i, j \in 1..n : p[i] = p[j] => i = j}

Reversed(s) == [i \in 1..Len(s) |-> s[Len(s) + 1 - i]]

\* o with its facts list reordered by p
WithFactsPermuted(o, p) ==
    [o EXCEPT !.facts = [i \in 1..Len(o.facts) |-> o.facts[p[i]]]]

\* o with its contexts map, and every dimensions map in it, inserted in the
\* opposite order
WithMapsReversed(o) ==
    [o EXCEPT !.contexts =
       Reversed([i \in 1..Len(o.contexts) |->
                   <<o.contexts[i][1],
                     [o.contexts[i][2] EXCEPT !.dimensions =
                        Reversed(o.contexts[i][2].dimensions)]>>])]

DurationContext ==
    [period_type |-> "Duration", instant |-> None, start_date |-> "2025-01-01",
     end_date |-> "2025-12-31", dimensions |-> <<>>]

DimensionedContext ==
    [period_type |-> "", instant |-> "2025-12-31", start_date |-> None,
     end_date |-> None, dimensions |-> <<<<"d1", "m1">>, <<"d2", "m2">>>>]

\* Facts of one concept, context and unit: with or without an id, worth 0.0,
\* 1.0 or 2.0 at decimals 0 (two of them agree within 0.5 + 0.5 unless they
\* are 0.0 and 2.0)
CanonFacts == {RawFact(id, "c1", v) : id \in {None, "a", "b"}, v \in {0, 10, 20}}

CanonObjects ==
    {RawFiling(<<<<"c1", InstantContext>>>>, facts) :
       facts \in SeqUpTo(CanonFacts, MaxPermFacts)}
    \cup
    {RawFiling(<<<<"c1", DimensionedContext>>, <<"c2", DurationContext>>>>, facts) :
       facts \in SeqUpTo({RawFact(None, "c1", 0), RawFact("a", "c2", 0)}, 1)}

Reorderings(o) ==
    {WithFactsPermuted(o, p) : p \in Orderings(Len(o.facts))}
    \cup {WithMapsReversed(o)}

CanonRuleLists ==
    {<<"xbrl.duplicate_fact_conflict">>,
     <<"ixbrl.context_reference_exists", "xbrl.duplicate_fact_conflict",
       "acct.assets_negative">>}

InitCanon ==
    /\ obj \in CanonObjects
    /\ obj2 \in Reorderings(obj)
    /\ Unset

\* Filing.from_dict on both objects
LoadBoth ==
    /\ filing = NoValue
    /\ filing' = FilingFromDict(obj)
    /\ filing2' = FilingFromDict(obj2)
    /\ UNCHANGED laterVars
    /\ UNCHANGED <<obj, obj2, roundTrip, run, run2, issued, pack, http, cert,
                   signed, verification>>
    /\ UNCHANGED lastVars

\* Filing.from_dict(filing.canonical_object())
Reload ==
    /\ filing # NoValue
    /\ roundTrip = NoValue /\ run = NoValue
    /\ roundTrip' = FilingFromDict(CanonicalObject(filing))
    /\ UNCHANGED laterVars
    /\ UNCHANGED <<obj, obj2, filing, filing2, run, run2, issued, pack, http,
                   cert, signed, verification>>
    /\ UNCHANGED lastVars

\* ValidationEngine(ruleList).validate on both filings
ValidateBoth ==
    /\ filing # NoValue
    /\ roundTrip = NoValue /\ run = NoValue
    /\ \E ruleList \in CanonRuleLists :
         /\ run' = [rules |-> ruleList, traced |-> FALSE]
                     @@ Validate(filing, ruleList, NoValue)
         /\ run2' = [rules |-> ruleList, traced |-> FALSE]
                      @@ Validate(filing2, ruleList, NoValue)
    /\ UNCHANGED laterVars
    /\ UNCHANGED <<obj, obj2, filing, filing2, roundTrip, issued, pack, http,
                   cert, signed, verification>>
    /\ UNCHANGED lastVars

NextCanon ==
    \/ LoadBoth
    \/ Reload
    \/ ValidateBoth

SpecCanon == InitCanon /\ [][NextCanon]_vars

\* The canonical form as written for hashing
CanonicalJson(f) == JsonDumpsCanonical(CanonicalObject(f))

\* C7: canonicalization is idempotent, and reordering the facts list, the
\* contexts map or a dimensions map of the input object changes neither the
\* canonical form nor the input digest, also when facts lack or share an id.
C7_CanonicalFormStable ==
    /\ roundTrip # NoValue => CanonicalJson(roundTrip) = CanonicalJson(filing)
    /\ filing2 # NoValue =>
         /\ CanonicalJson(filing2) = CanonicalJson(filing)
         /\ InputDigest(filing2) = InputDigest(filing)

\* C8: two filings with the same input digest get the same status and the
\* same findings from validate, whatever the profile.
C8_DigestIdentifiesInput ==
    (run2 # NoValue /\ InputDigest(filing2) = InputDigest(filing)) =>
      /\ run2.raised = run.raised
      /\ run.raised = None =>
           /\ status(run2.result) = status(run.result)
           /\ run2.result.findings = run.result.findings

-----------------------------------------------------------------------------
(* SpecCert: a certificate is issued for a validated filing, signed, read     *)
(* back from its JSON file (where its fields can have been changed) and       *)
(* verified                                                                   *)

\* Filings whose validation has no error, so that a certificate is issued
CertObjects ==
    { RawFiling(<<<<"c1", InstantContext>>>>, facts) :
        facts \in {<<>>, <<RawFact("a", "c1", 20)>>, <<RawFact("a", "c1", -10)>>} }

KeyIds == {None, "kid"}

\* What a JSON document can hold in place of a text field of a certificate
ReplacementTexts ==
    {PyNone, PyStr(""), PyStr("c"), PyInt(0), NonAsciiText}

\* certificate with certificate[key] = value
WithField(certificate, key, value) ==
    [k \in DOMAIN certificate \cup {key} |->
        IF k = key THEN value ELSE certificate[k]]

\* certificate with certificate["signature"][key] = value
WithSignatureField(certificate, key, value) ==
    WithField(certificate, "signature",
              WithField(certificate["signature"], key, value))

\* The certificate files json.load can return for a signed certificate that
\* was edited in one place after signing; each is tagged with the place
EditedCertificates(certificate) ==
    LET payload_bytes == _stable_json_bytes(_unsigned_certificate(certificate))
    IN  { [edit |-> "signature.value",
           value |-> WithSignatureField(certificate, "value", v)] :
            v \in (ReplacementTexts
                     \cup {_sign_hs256(payload_bytes, s) : s \in Secrets})
                  \ {certificate["signature"]["value"]} }
        \cup { [edit |-> "signature.payload_digest",
                value |-> WithSignatureField(certificate, "payload_digest", v)] :
                 v \in {PyStr("c"), NonAsciiText} }
        \cup { [edit |-> "signature.algorithm",
                value |-> WithSignatureField(certificate, "algorithm", PyStr("c"))],
               [edit |-> "signature",
                value |-> WithField(certificate, "signature", PyNone)],
               [edit |-> "verdict",
                value |-> WithField(certificate, "verdict", PyStr("risk"))],
               [edit |-> "input_digest",
                value |-> _unsigned_certificate(
                              [k \in DOMAIN certificate \ {"input_digest"} |->
                                  certificate[k]])] }

\* The fields of a certificate that sign_certificate signs
PayloadFields ==
    {"schema_version", "tool_version", "issued_at", "profile", "input_digest",
     "rules_digest", "verdict"}

\* The certificate files json.load can return for a signed certificate whose
\* payload was edited in one place after signing, the signature block left as
\* it was: a field's value changed, a field removed, a field added
TamperedPayloads(certificate) ==
    { [edit |-> "payload", value |-> WithField(certificate, key, v)] :
        key \in PayloadFields \ {"schema_version"},
        v \in {PyStr("c"), NonAsciiText} }
    \cup { [edit |-> "payload",
            value |-> [k \in DOMAIN certificate \ {key} |-> certificate[k]]] :
             key \in PayloadFields \ {"schema_version"} }
    \cup { [edit |-> "payload", value |-> WithField(certificate, "extra", PyStr("c"))] }

\* The state after filing = Filing.from_dict(obj) and
\* run = ValidationEngine(get_profile("companyfacts-consistency").rules).validate(filing)
InitCert ==
    /\ obj \in CertObjects
    /\ obj2 = NoValue
    /\ filing = FilingFromDict(obj)
    /\ run = [rules |-> get_profile("companyfacts-consistency").rules, traced |-> FALSE]
               @@ Validate(FilingFromDict(obj),
                           get_profile("companyfacts-consistency").rules, NoValue)
    /\ filing2 = NoValue /\ roundTrip = NoValue /\ run2 = NoValue
    /\ issued = NoValue /\ pack = NoValue /\ http = NoValue
    /\ cert = NoValue /\ signed = NoValue /\ verification = NoValue
    /\ proof = NoValue /\ replay = NoValue
    /\ scaling = NoValue /\ cycleRun = NoValue
    /\ UnsetLast

\* cert = issue_certificate("companyfacts-consistency", result, signing_secret=...)
IssueForSigning ==
    /\ cert = NoValue
    /\ run.raised = None
    /\ \E signing_secret \in {None, "k1"}, now \in Times :
         LET out == issue_certificate("companyfacts-consistency", run.result,
                                      signing_secret, None, now)
         IN  /\ out.raised = None
             /\ cert' = out.value
    /\ UNCHANGED laterVars
    /\ UNCHANGED <<obj, obj2, filing, filing2, roundTrip, run, run2, issued,
                   pack, http, signed, verification>>
    /\ UNCHANGED lastVars

\* signed = sign_certificate(cert, signing_secret=s, key_id=key_id)
SignCertificate ==
    /\ cert # NoValue
    /\ signed = NoValue /\ verification = NoValue
    /\ \E s \in Secrets \cup {""}, key_id \in KeyIds, now \in Times :
         signed' = [secret |-> s, edit |-> "none"]
                     @@ sign_certificate(cert, s, key_id, now)
    /\ UNCHANGED laterVars
    /\ UNCHANGED <<obj, obj2, filing, filing2, roundTrip, run, run2, issued,
                   pack, http, cert, verification>>
    /\ UNCHANGED lastVars

\* The signed certificate is written to a file that is edited in one place
\* before _load_json reads it back
LoadEditedCertificate ==
    /\ signed # NoValue
    /\ signed.raised = None
    /\ signed.edit = "none"
    /\ verification = NoValue
    /\ \E e \in EditedCertificates(signed.value) \cup TamperedPayloads(signed.value) :
         signed' = [signed EXCEPT !.edit = e.edit, !.value = e.value]
    /\ UNCHANGED laterVars
    /\ UNCHANGED <<obj, obj2, filing, filing2, roundTrip, run, run2, issued,
                   pack, http, cert, verification>>
    /\ UNCHANGED lastVars

\* sign_certificate is called again on the signed certificate with the secret
\* that signed it; signed.original keeps the certificate of the first call
ResignCertificate ==
    /\ signed # NoValue
    /\ signed.raised = None
    /\ signed.edit = "none"
    /\ verification = NoValue
    /\ \E key_id \in KeyIds, now \in Times :
         signed' = [secret |-> signed.secret, edit |-> "resigned",
                    original |-> signed.value]
                     @@ sign_certificate(signed.value, signed.secret, key_id, now)
    /\ UNCHANGED laterVars
    /\ UNCHANGED <<obj, obj2, filing, filing2, roundTrip, run, run2, issued,
                   pack, http, cert, verification>>
    /\ UNCHANGED lastVars

\* verification = verify_certificate(certificate, signing_secret=s,
\*                                   require_signature=require_signature)
\* on the signed (and possibly edited) certificate, or on cert before signing
VerifyCertificate ==
    /\ cert # NoValue
    /\ verification = NoValue
    /\ signed # NoValue => signed.raised = None
    /\ \E s \in Secrets \cup {None}, require_signature \in BOOLEAN :
         LET certificate == IF signed # NoValue THEN signed.value ELSE cert
         IN  verification' = [certificate |-> certificate,
                              signing_secret |-> s,
                              require_signature |-> require_signature]
                               @@ verify_certificate(certificate, s,
                                                     require_signature)
    /\ UNCHANGED laterVars
    /\ UNCHANGED <<obj, obj2, filing, filing2, roundTrip, run, run2, issued,
                   pack, http, cert, signed>>
    /\ UNCHANGED lastVars

NextCert ==
    \/ IssueForSigning
    \/ SignCertificate
    \/ LoadEditedCertificate
    \/ ResignCertificate
    \/ VerifyCertificate

SpecCert == InitCert /\ [][NextCert]_vars

\* C9: a certificate returned by issue_certificate and signed with a non-empty
\* secret s verifies under s; once signature.value is replaced by any
\* different text, or when the secret given to verify_certificate differs
\* from s, verify_certificate returns verified = false.
C9_SignVerifyRoundTrip ==
    (verification # NoValue /\ signed # NoValue) =>
      /\ (signed.edit = "none" /\ verification.signing_secret = signed.secret) =>
           /\ verification.raised = None
           /\ verification.value.verified
      /\ (\/ (signed.edit = "signature.value"
                 /\ verification.signing_secret = signed.secret)
          \/ (signed.edit = "none"
                 /\ verification.signing_secret # signed.secret)) =>
           /\ verification.raised = None
           /\ ~verification.value.verified

\* The check ids verify_certificate is to list for a certificate, in order
ApplicableChecks(certificate, signing_secret, require_signature) ==
    <<"certificate_schema", "certificate_verdict", "input_digest_present",
      "rules_digest_present">>
    \o (IF ~IsDict(Get(certificate, "signature"))
        THEN IF require_signature THEN <<"signature_present">>
             ELSE <<"signature_optional">>
        ELSE <<"signature_schema", "signature_algorithm",
               "signature_payload_digest">>
             \o (IF Truthy(signing_secret) THEN <<"signature_value_match">>
                 ELSE <<"signature_secret_provided">>))

\* C10: verify_certificate returns for every dict; the result lists every
\* applicable check, in order, each with a passed flag and a message, also
\* after a failed check; verified is true exactly when every listed check
\* passed.
C10_VerifyListsEveryCheck ==
    verification # NoValue =>
      /\ verification.raised = None
      /\ LET checks == verification.value.checks
         IN  /\ [i \in 1..Len(checks) |-> checks[i].check_id]
                  = ApplicableChecks(verification.certificate,
                                     verification.signing_secret,
                                     verification.require_signature)
             /\ \A i \in 1..Len(checks) :
                  /\ checks[i].passed \in BOOLEAN
                  /\ checks[i].message # ""
             /\ verification.value.verified
                  <=> \A i \in 1..Len(checks) : checks[i].passed

\* C11: for a certificate with a signature block verified without a secret,
\* the missing secret is not a failure: verified is the conjunction of the
\* schema, verdict, digest-presence, signature schema, signature algorithm and
\* payload digest checks, so a signed, unedited certificate verifies.
C11_NoSecretIsNotAFailure ==
    (verification # NoValue
       /\ verification.raised = None
       /\ IsDict(Get(verification.certificate, "signature"))
       /\ ~Truthy(verification.signing_secret)) =>
      LET checks == verification.value.checks
      IN  /\ verification.value.verified
            <=> \A i \in 1..Len(checks) :
                  checks[i].check_id \in
                      {"certificate_schema", "certificate_verdict",
                       "input_digest_present", "rules_digest_present",
                       "signature_schema", "signature_algorithm",
                       "signature_payload_digest"} => checks[i].passed
          /\ (signed # NoValue /\ signed.edit = "none") =>
               verification.value.verified

-----------------------------------------------------------------------------
(* SpecProof: a filing is validated and a proof bundle is built for it        *)
(* (build-proof), then the bundle is replayed with the report and the         *)
(* certificate it was built from.  SpecReplay: the bundle is replayed with    *)
(* proof, report and certificate files as they are found later.               *)

MaxProofFacts == 4

\* A fact object with these fields, unit USD
BalanceFact(id, concept, context_id, value, decimals) ==
    [id |-> id, concept |-> concept, context_id |-> context_id, value |-> value,
     unit |-> "USD", decimals |-> decimals, dimensions |-> <<>>, source |-> <<>>]

\* Balance sheet facts of context c1: Assets 3 (decimals 0), 1.5 and NaN,
\* Liabilities 1, Equity 2 and 0.5 (decimals absent unless said)
ProofFacts ==
    {BalanceFact(None, "us-gaap:Assets", "c1", PyInt(30), PyInt(0)),
     BalanceFact(None, "us-gaap:Assets", "c1", PyInt(15), PyNone),
     BalanceFact(None, "us-gaap:Assets", "c1", PyStr("NaN"), PyInt(0)),
     BalanceFact(None, "us-gaap:Liabilities", "c1", PyInt(10), PyNone),
     BalanceFact(None, "us-gaap:StockholdersEquity", "c1", PyInt(20), PyNone),
     BalanceFact(None, "ifrs-full:Equity", "c1", PyInt(5), PyNone)}

ProofObjects ==
    {RawFiling(<<<<"c1", InstantContext>>>>, facts) :
       facts \in SeqUpTo(ProofFacts, MaxProofFacts)}

\* _cmd_build_proof: the filing is read and validated under the profile, a
\* certificate is issued when the status is clean and certificates are not
\* switched off, and the bundle is built
BuildProofOutcome(o, profile_arg, no_certificate, signing_secret, now) ==
    LET profile == normalize_profile_name(profile_arg)
        Outcome(ran, certificate, built) ==
            IF ran.raised # None
            THEN [raised |-> ran.raised, value |-> NoValue, report |-> NoValue,
                  result |-> NoValue, certificate |-> NoValue]
            ELSE IF certificate.raised # None
            THEN [raised |-> certificate.raised, value |-> NoValue,
                  report |-> ran.report, result |-> ran.result,
                  certificate |-> NoValue]
            ELSE [raised |-> built.raised, value |-> built.value,
                  report |-> ran.report, result |-> ran.result,
                  certificate |-> certificate.value]
        AfterCertificate(ran, certificate) ==
            Outcome(ran, certificate,
                    build_proof_bundle(FilingFromDict(o), profile, ran.report,
                                       ran.result, certificate.value, now))
        AfterValidation(ran) ==
            AfterCertificate(ran,
                IF ran.raised = None /\ ran.report.status = "clean" /\ ~no_certificate
                THEN issue_certificate(profile, ran.result, signing_secret, None, now)
                ELSE [raised |-> None, value |-> PyNone])
    IN  AfterValidation(run_validation(FilingFromDict(o), profile, FALSE))

InitProof ==
    /\ obj \in ProofObjects
    /\ obj2 = NoValue
    /\ Unset

BuildProof ==
    /\ proof = NoValue
    /\ \E profile \in {"companyfacts_consistency", "fsd-consistency"},
          no_certificate \in BOOLEAN, signing_secret \in {None, "k1"} :
         LET out == BuildProofOutcome(obj, profile, no_certificate,
                                      signing_secret, "t1")
         IN  /\ filing' = FilingFromDict(obj)
             /\ proof' = [profile |-> normalize_profile_name(profile),
                          signing_secret |-> signing_secret] @@ out
    /\ UNCHANGED <<obj, obj2, filing2, roundTrip, run, run2, issued, pack, http,
                   cert, signed, verification, replay, scaling, cycleRun>>
    /\ UNCHANGED lastVars

\* replay_proof_bundle(proof, report=report, certificate=certificate) with
\* the report and the certificate the bundle was built from
ReplayBuilt ==
    /\ proof # NoValue
    /\ proof.raised = None
    /\ replay = NoValue
    /\ \E signing_secret \in {None, "k1"} :
         replay' = [proof |-> proof.value, report |-> proof.report,
                    certificate |-> proof.certificate,
                    signing_secret |-> signing_secret,
                    require_certificate_signature |-> FALSE,
                    run_lean |-> FALSE, outcome |-> "runs"]
                     @@ replay_proof_bundle(proof.value, proof.report,
                                            proof.certificate, signing_secret,
                                            FALSE, FALSE, "runs")
    /\ UNCHANGED <<obj, obj2, filing, filing2, roundTrip, run, run2, issued, pack,
                   http, cert, signed, verification, proof, scaling, cycleRun>>
    /\ UNCHANGED lastVars

NextProof ==
    \/ BuildProof
    \/ ReplayBuilt

SpecProof == InitProof /\ [][NextProof]_vars

\* C12: replaying a bundle with the report and the certificate (none,
\* unsigned or signed) it was built from returns verified = true, and a
\* bundle is built for every filing that was validated.
C12_ReplayRoundTrip ==
    /\ (proof # NoValue /\ proof.result # NoValue) => proof.raised = None
    /\ (replay # NoValue /\ replay.signing_secret = None) =>
         /\ replay.raised = None
         /\ replay.value.verified

-----------------------------------------------------------------------------
(* SpecReplay: replay-proof reads the proof, report and certificate files as  *)
(* they are at that time: the files build-proof wrote, files changed since,   *)
(* or a certificate issued later.                                             *)

\* Filings with no facts, one balanced context, two balanced contexts, and
\* one context that is out of balance by 1.5
ReplayObjects ==
    LET balanced1 == <<BalanceFact(None, "us-gaap:Assets", "c1", PyInt(30), PyInt(0)),
                       BalanceFact(None, "us-gaap:Liabilities", "c1", PyInt(10), PyNone),
                       BalanceFact(None, "us-gaap:StockholdersEquity", "c1", PyInt(20), PyNone)>>
        balanced2 == <<BalanceFact(None, "us-gaap:Assets", "c2", PyInt(15), PyNone),
                       BalanceFact(None, "us-gaap:Liabilities", "c2", PyInt(10), PyNone),
                       BalanceFact(None, "ifrs-full:Equity", "c2", PyInt(5), PyNone)>>
        unbalanced == <<BalanceFact(None, "us-gaap:Assets", "c1", PyInt(30), PyInt(0)),
                        BalanceFact(None, "us-gaap:Liabilities", "c1", PyInt(10), PyNone),
                        BalanceFact(None, "ifrs-full:Equity", "c1", PyInt(5), PyNone)>>
        contexts == <<<<"c1", InstantContext>>, <<"c2", InstantContext>>>>
    IN  {RawFiling(contexts, facts) :
           facts \in {<<>>, balanced1, balanced1 \o balanced2, unbalanced}}

\* d without the key
WithoutField(d, key) == [k \in DOMAIN d \ {key} |-> d[k]]

\* The first claim of the list replaced
WithFirstClaim(proof_dict, claim) ==
    WithField(proof_dict, "arithmetic_claims",
              <<claim>> \o Tail(proof_dict["arithmetic_claims"]))

\* The report files: the report of the run, the same with executed_rules in
\* the opposite order, the same with one finding more or one finding less,
\* and no report file
ReportFiles(report) ==
    {PyNone, report,
     WithField(report, "executed_rules", Reversed(report.executed_rules)),
     WithField(report, "findings",
               IF report.findings = <<>>
               THEN <<Finding("acct.assets_negative", "error", <<"Assets is negative">>,
                              <<>>, <<>>)>>
               ELSE Tail(report.findings))}

\* The certificate files: the one build-proof used (or none), no file, and
\* for a clean result a certificate issued later, unsigned or signed
CertificateFiles(built) ==
    {built.certificate, PyNone}
      \cup (IF built.report.status = "clean"
            THEN {issue_certificate(built.profile, built.result, secret, None, "t2").value :
                    secret \in {None, "k1"}}
            ELSE {})

\* The proof files: the bundle build-proof wrote; the bundle with the digest
\* of another report recorded; with executed_rules in the opposite order;
\* without a certificate digest, or with another one; with the first claim's
\* within_tolerance negated, or one of its numbers unreadable; with the
\* status rewritten, the summary emptied, another findings digest, or the
\* first claim removed
ProofFiles(built) ==
    LET p == built.value
        claims == p["arithmetic_claims"]
    IN  {p, WithoutField(p, "certificate_digest"),
         WithField(p, "certificate_digest", NonAsciiText),
         WithField(p, "executed_rules", Reversed(p["executed_rules"])),
         WithField(p, "status",
                   IF p["status"] = PyStr("clean") THEN PyStr("risk")
                   ELSE PyStr("clean")),
         WithField(p, "report_summary", <<>>),
         WithField(p, "findings_digest", PyStr("c")),
         WithField(p, "arithmetic_claims",
                   IF claims = <<>> THEN claims ELSE Tail(claims))}
          \cup {WithField(p, "report_digest", Sha256(_stable_json_bytes(r))) :
                  r \in ReportFiles(built.report) \ {PyNone}}
          \cup {WithField(p, "certificate_digest", Sha256(_stable_json_bytes(c))) :
                  c \in CertificateFiles(built) \ {PyNone}}
          \cup (IF claims = <<>> THEN {}
                ELSE {WithFirstClaim(p, WithField(claims[1], "within_tolerance",
                                                  ~claims[1].within_tolerance)),
                      WithFirstClaim(p, WithField(claims[1], "assets", PyStr("x"))),
                      WithFirstClaim(p, WithField(claims[1], "tolerance", PyNone))})

InitReplay ==
    /\ obj \in ReplayObjects
    /\ obj2 = NoValue
    /\ Unset

\* replay_proof_bundle as _cmd_replay_proof calls it
ReplayProof ==
    /\ proof # NoValue
    /\ proof.raised = None
    /\ replay = NoValue
    /\ \E proof_dict \in ProofFiles(proof), report \in ReportFiles(proof.report),
          certificate \in CertificateFiles(proof),
          signing_secret \in {None, "k1"},
          require_certificate_signature \in BOOLEAN,
          lean \in {<<FALSE, "runs">>} \cup ({TRUE} \X LeanOutcomes) :
         replay' = [proof |-> proof_dict, report |-> report,
                    certificate |-> certificate,
                    signing_secret |-> signing_secret,
                    require_certificate_signature |-> require_certificate_signature,
                    run_lean |-> lean[1], outcome |-> lean[2]]
                     @@ replay_proof_bundle(proof_dict, report, certificate,
                                            signing_secret,
                                            require_certificate_signature,
                                            lean[1], lean[2])
    /\ UNCHANGED <<obj, obj2, filing, filing2, roundTrip, run, run2, issued, pack,
                   http, cert, signed, verification, proof, scaling, cycleRun>>
    /\ UNCHANGED lastVars

NextReplay ==
    \/ BuildProof
    \/ ReplayProof

SpecReplay == InitReplay /\ [][NextReplay]_vars

\* A replay that returned
Replayed == replay # NoValue /\ replay.raised = None

\* C13: with a report supplied, verified = true implies that the report's
\* digest, input_digest and executed_rules equal the ones the proof records;
\* replayed against the bundle as built, any other report (executed_rules
\* reordered, a finding changed) makes verified false.
C13_ReportBinding ==
    (Replayed /\ replay.report # PyNone) =>
      /\ replay.value.verified =>
           /\ Sha256(_stable_json_bytes(replay.report)) = replay.proof["report_digest"]
           /\ replay.report.input_digest = replay.proof["input_digest"]
           /\ replay.report.executed_rules = replay.proof["executed_rules"]
      /\ (replay.proof = proof.value /\ replay.report # proof.report) =>
           ~replay.value.verified

\* A replay of a proof that records the digest of the reordered report,
\* which fails, and a replay of the bundle and report as built, which verifies
C13_Witness ==
    /\ Replayed
    /\ replay.report # PyNone
    /\ replay.proof["report_digest"] = Sha256(_stable_json_bytes(replay.report))
    /\ replay.report.executed_rules # replay.proof["executed_rules"]
    /\ ~replay.value.verified

\* C14: with a certificate supplied, verified = true implies that the
\* certificate's digest is the one the proof records and that the
\* certificate passes verify_certificate.
C14_CertificateBinding ==
    (Replayed /\ replay.certificate # PyNone /\ replay.value.verified) =>
      /\ Get(replay.proof, "certificate_digest")
           = Sha256(_stable_json_bytes(replay.certificate))
      /\ verify_certificate(replay.certificate, replay.signing_secret,
                            replay.require_certificate_signature).value.verified

\* The claims of the proof that was replayed, and where their checks start
ReplayedClaims == replay.proof["arithmetic_claims"]

ChecksBeforeClaims == IF replay.report = PyNone THEN 3 ELSE 6

CheckIds(checks) == [i \in DOMAIN checks |-> checks[i].check_id]

\* C15: a replay that requires a certificate signature and is given no
\* certificate returns; the result has the failing check certificate_required
\* and verified = false, and every other check is there: the three of the
\* proof, the three of the report when one is given, one for each claim, and
\* all that the same replay without the requirement lists.
C15_RequiredCertificateAbsent ==
    (replay # NoValue /\ replay.require_certificate_signature
       /\ replay.certificate = PyNone) =>
      /\ replay.raised = None
      /\ ~replay.value.verified
      /\ LET checks == replay.value.checks
             k == ChecksBeforeClaims + Len(ReplayedClaims) + 1
             others == SubSeq(checks, 1, k - 1) \o SubSeq(checks, k + 1, Len(checks))
         IN  /\ Len(checks) >= k
             /\ checks[k].check_id = "certificate_required"
             /\ ~checks[k].passed
             /\ SubSeq(CheckIds(checks), 1, ChecksBeforeClaims)
                  = SubSeq(<<"proof_schema", "proof_input_digest", "proof_report_digest",
                             "report_digest_match", "report_input_digest_match",
                             "executed_rules_match">>, 1, ChecksBeforeClaims)
             /\ \A i \in 1..Len(ReplayedClaims) :
                  checks[ChecksBeforeClaims + i].check_id
                    = <<"claim:", ReplayedClaims[i].claim_id>>
             /\ others = replay_proof_bundle(replay.proof, replay.report, PyNone,
                                             replay.signing_secret, FALSE,
                                             replay.run_lean, replay.outcome).value.checks

\* A replay with the requirement, no certificate, a report and two claims
C15_Witness ==
    /\ Replayed
    /\ replay.require_certificate_signature
    /\ replay.certificate = PyNone
    /\ replay.report # PyNone
    /\ Len(ReplayedClaims) = 2
    /\ Len(replay.value.checks) = 9
    /\ ~replay.value.verified

\* C16: when the external checker is enabled and its binary is not found or
\* it times out, the replay returns, reports the status, and verified is what
\* the same replay returns with the checker disabled.
C16_CheckerFaultIsNotAFailure ==
    (replay # NoValue /\ replay.run_lean /\ replay.outcome \in {"not_found", "timeout"}) =>
      LET disabled == replay_proof_bundle(replay.proof, replay.report,
                                          replay.certificate, replay.signing_secret,
                                          replay.require_certificate_signature,
                                          FALSE, replay.outcome)
      IN  disabled.raised = None =>
            /\ replay.raised = None
            /\ replay.value.lean.status \in {"unavailable", "error"}
            /\ replay.value.verified = disabled.value.verified

\* |assets - (liabilities + equity)| <= tolerance on the numbers of a claim
Recomputed(claim) ==
    Abs(claim.assets.tenths - (claim.liabilities.tenths + claim.equity.tenths))
      <= claim.tolerance.tenths

Readable(claim) ==
    \A key \in {"assets", "liabilities", "equity", "tolerance"} :
       claim[key] \in {DecimalText(n) : n \in -100..100}

EvaluatedContexts(f) ==
    CommonContexts(_best_fact_by_context(f.facts, assets_concepts),
                   _best_fact_by_context(f.facts, liabilities_concepts),
                   _best_fact_by_context(f.facts, equity_concepts))

\* The findings of the balance sheet rule in a validation result
EquationFindings(result) ==
    SelectSeq(result.findings, LAMBDA x : x.rule_id = "acct.balance_sheet_equation")

\* C17: for a filing validated with the balance sheet rule, the bundle has
\* one arithmetic claim for each context in which the rule evaluates the
\* equation, in the same order, and no other; each claim names the three
\* facts the rule used, and its within_tolerance is false exactly when the
\* rule reported an error for that context.
C17_ClaimsMirrorRule ==
    (proof # NoValue /\ proof.result # NoValue) =>
      /\ proof.raised = None
      /\ LET claims == proof.value["arithmetic_claims"]
             findings == EquationFindings(proof.result)
         IN  /\ [i \in DOMAIN claims |-> claims[i].context_id] = EvaluatedContexts(filing)
             /\ \A i \in DOMAIN claims :
                  ~claims[i].within_tolerance <=>
                    \E j \in DOMAIN findings :
                       /\ findings[j].message[2] = claims[i].context_id
                       /\ findings[j].fact_ids = claims[i].fact_ids

-----------------------------------------------------------------------------
(* SpecScale: _decimal_places and _to_scaled_int on Decimal values, short     *)
(* ones and ones with more digits than the context precision.                 *)

MaxDigits == 2

MaxScalePower == 2

\* Decimals of at most MaxDigits digits 0, 1 and 5, and Decimals of
\* DecimalPrec + 1 digits such as Decimal("1.0000000000000000000000000001")
\* that Decimal(txt) builds exactly from the text of a fact value
ScaleValues ==
    {Decimal(sign, digits, exp) :
       sign \in {0, 1},
       digits \in UNION {[1..n -> {0, 1, 5}] : n \in 1..MaxDigits},
       exp \in -MaxScalePower..1}
      \cup {Decimal(sign, <<1>> \o Zeros(DecimalPrec - 1) \o <<d>>, exp) :
              sign \in {0, 1}, d \in {1, 5}, exp \in {-DecimalPrec, -1, 0}}

ScalePowers == 0..MaxScalePower \cup {DecimalPrec}

InitScale ==
    /\ obj = NoValue
    /\ obj2 = NoValue
    /\ filing = NoValue /\ filing2 = NoValue /\ roundTrip = NoValue
    /\ run = NoValue /\ run2 = NoValue /\ issued = NoValue /\ pack = NoValue
    /\ http = NoValue /\ cert = NoValue /\ signed = NoValue
    /\ verification = NoValue /\ proof = NoValue /\ replay = NoValue
    /\ cycleRun = NoValue
    /\ UnsetLast
    /\ scaling \in {[value |-> v, called |-> None, scale_power |-> 0,
                     result |-> NoValue] : v \in ScaleValues}

DecimalPlaces ==
    /\ scaling # NoValue
    /\ scaling.called = None
    /\ scaling' = [scaling EXCEPT !.called = "_decimal_places",
                                  !.result = _decimal_places(scaling.value)]
    /\ UNCHANGED <<obj, obj2, filing, filing2, roundTrip, run, run2, issued, pack,
                   http, cert, signed, verification, proof, replay, cycleRun>>
    /\ UNCHANGED lastVars

ToScaledInt ==
    /\ scaling # NoValue
    /\ scaling.called = None
    /\ \E scale_power \in ScalePowers :
         scaling' = [scaling EXCEPT !.called = "_to_scaled_int",
                                    !.scale_power = scale_power,
                                    !.result = _to_scaled_int(scaling.value, scale_power)]
    /\ UNCHANGED <<obj, obj2, filing, filing2, roundTrip, run, run2, issued, pack,
                   http, cert, signed, verification, proof, replay, cycleRun>>
    /\ UNCHANGED lastVars

NextScale ==
    \/ DecimalPlaces
    \/ ToScaledInt

SpecScale == InitScale /\ [][NextScale]_vars

\* value * 10 ** scale_power with every digit kept
ExactProduct(value, scale_power) ==
    Reduced(Decimal(value.sign, value.digits \o Zeros(scale_power), value.exp))

\* C18: _decimal_places(v) is the least k >= 0 for which v * 10^k is an
\* integer; _to_scaled_int(v, 10^k) raises ValueError exactly when v * 10^k
\* is not an integer, and what it returns is v * 10^k with no rounding.
C18_ScalingExact ==
    scaling # NoValue =>
      LET exact == ExactProduct(scaling.value, scaling.scale_power)
      IN  /\ scaling.called = "_decimal_places" =>
               /\ scaling.result.raised = None
               /\ scaling.result.value >= 0
               /\ ExactProduct(scaling.value, scaling.result.value).exp >= 0
               /\ \A k \in 0..(scaling.result.value - 1) :
                    ExactProduct(scaling.value, k).exp < 0
          /\ scaling.called = "_to_scaled_int" =>
               /\ scaling.result.raised = "ValueError" <=> exact.exp < 0
               /\ scaling.result.raised = None =>
                    DecimalEq(scaling.result.value, exact)

-----------------------------------------------------------------------------
(* SpecTax: TaxonomyCalculationNoCycleRule run on filings whose JSON has a    *)
(* taxonomy_package with a list of relationships.                             *)

MaxRelationships == 3

ConceptNames == <<"A", "B", "C">>

\* Arcs between the three concepts, of both arcroles, and one with no target
Relationships ==
    {[from |-> a, to |-> b, arcrole |-> r] :
       a \in {"A", "B", "C"}, b \in {"A", "B", "C"}, r \in {SummationItem, ParentChild}}
      \cup {[from |-> "A", to |-> "", arcrole |-> SummationItem]}

TaxObjects ==
    {RawFiling(<<>>, <<>>) @@ [taxonomy_package |-> [relationships |-> rels]] :
       rels \in SeqUpTo(Relationships, MaxRelationships)}

InitTax ==
    /\ obj \in TaxObjects
    /\ obj2 = NoValue
    /\ Unset

\* The filing is loaded and the rule is run on it; a loop over a set of
\* concept names visits them in one of the orders
RunCycleRule ==
    /\ cycleRun = NoValue
    /\ \E p \in Orderings(Len(ConceptNames)) :
         LET order == [i \in 1..Len(ConceptNames) |-> ConceptNames[p[i]]]
         IN  /\ filing' = FilingFromDict(obj)
             /\ cycleRun' = TaxonomyCalculationNoCycleRun(FilingFromDict(obj), order)
    /\ UNCHANGED <<obj, obj2, filing2, roundTrip, run, run2, issued, pack, http,
                   cert, signed, verification, proof, replay, scaling>>
    /\ UNCHANGED lastVars

NextTax ==
    \/ RunCycleRule

SpecTax == InitTax /\ [][NextTax]_vars

\* The calculation arcs of the relationships, as pairs
CalculationArcs(relationships) ==
    {<<relationships[i].from, relationships[i].to>> :
       i \in {j \in DOMAIN relationships :
                /\ relationships[j].arcrole = SummationItem
                /\ relationships[j].from # "" /\ relationships[j].to # ""}}

\* A closed path of the arcs: first node = last node, each step an arc
ClosedPath(path, arcs) ==
    /\ Len(path) >= 2
    /\ path[1] = path[Len(path)]
    /\ \A i \in 1..(Len(path) - 1) : <<path[i], path[i + 1]>> \in arcs

HasCycle(arcs) ==
    \E path \in UNION {[1..n -> {"A", "B", "C"}] : n \in 2..4} : ClosedPath(path, arcs)

\* C20: the rule returns for every relationship list; it returns exactly one
\* error finding when the calculation arcs have a directed cycle and none
\* when they have not; the reported cycle is a closed path of calculation
\* arcs, and for the arcs A->B, B->C, C->A, A's arc listed first, it is
\* A, B, C, A.
C20_CycleRuleDecides ==
    cycleRun # NoValue =>
      LET relationships == obj.taxonomy_package.relationships
          arcs == CalculationArcs(relationships)
      IN  /\ cycleRun.raised = None
          /\ Len(cycleRun.findings) = (IF HasCycle(arcs) THEN 1 ELSE 0)
          /\ \A i \in DOMAIN cycleRun.findings :
               /\ cycleRun.findings[i].severity = "error"
               /\ ClosedPath(cycleRun.findings[i].details[1][2], arcs)
          /\ (/\ arcs = {<<"A", "B">>, <<"B", "C">>, <<"C", "A">>}
              /\ CalculationEdges(relationships, Len(relationships))[1][1] = "A")
               => cycleRun.findings[1].details[1][2] = <<"A", "B", "C", "A">>

-----------------------------------------------------------------------------
(* SpecRules: one rule of rules.py is run on a filing with balance sheet     *)
(* facts, some of them duplicates of each other, some in an unknown context  *)

MaxRuleFacts == 4

\* Facts of context c1: Assets 1000, -1000, 1001, 1002 and NaN, Liabilities
\* 400, Equity 600 and 550; Liabilities 400 in the unknown context cX; all
\* with decimals 0
RuleFacts ==
    {BalanceFact(None, "us-gaap:Assets", "c1", PyInt(10000), PyInt(0)),
     BalanceFact(None, "us-gaap:Assets", "c1", PyInt(-10000), PyInt(0)),
     BalanceFact(None, "us-gaap:Assets", "c1", PyInt(10010), PyInt(0)),
     BalanceFact(None, "us-gaap:Assets", "c1", PyInt(10020), PyInt(0)),
     BalanceFact(None, "us-gaap:Assets", "c1", PyStr("NaN"), PyInt(0)),
     BalanceFact(None, "us-gaap:Liabilities", "c1", PyInt(4000), PyInt(0)),
     BalanceFact(None, "us-gaap:StockholdersEquity", "c1", PyInt(6000), PyInt(0)),
     BalanceFact(None, "ifrs-full:Equity", "c1", PyInt(5500), PyInt(0)),
     BalanceFact(None, "us-gaap:Liabilities", "cX", PyInt(4000), PyInt(0))}

RuleObjects ==
    {RawFiling(<<<<"c1", InstantContext>>>>, facts) :
       facts \in SeqUpTo(RuleFacts, MaxRuleFacts)}

InitRules ==
    /\ obj \in RuleObjects
    /\ obj2 = NoValue
    /\ Unset

\* rule.run(Filing.from_dict(obj)) for the rule with this id
RunOne(rule_id) ==
    /\ ruleRun = NoValue
    /\ ruleRun' = [rule_id |-> rule_id, filing |-> FilingFromDict(obj)]
                    @@ RunRule(rule_id, FilingFromDict(obj))
    /\ UNCHANGED <<firstVars, laterVars, engine, calls, tailVars>>

RunContextReference == RunOne("ixbrl.context_reference_exists")

RunDuplicateFactConflict == RunOne("xbrl.duplicate_fact_conflict")

RunBalanceSheetEquation == RunOne("acct.balance_sheet_equation")

NextRules ==
    \/ RunContextReference
    \/ RunDuplicateFactConflict
    \/ RunBalanceSheetEquation

SpecRules == InitRules /\ [][NextRules]_vars

\* The facts of a filing that are numeric facts of these concepts in this
\* context (their places in filing.facts)
FamilyFacts(f, concepts, context_id) ==
    {i \in DOMAIN f.facts :
       /\ f.facts[i].concept \in concepts
       /\ f.facts[i].context_id = context_id
       /\ NumericValue(f.facts[i]) # NoNumber}

\* x is smaller in absolute value than y, or as large and comes earlier
\* (i, j: their places); no order holds with NaN
Yields(x, i, y, j) ==
    /\ x # NaN /\ y # NaN
    /\ \/ Abs(x.i) < Abs(y.i)
       \/ Abs(x.i) = Abs(y.i) /\ i < j

\* The best fact of a family in a context: the one every other yields to
BestFacts(f, concepts, context_id) ==
    {i \in FamilyFacts(f, concepts, context_id) :
       \A j \in FamilyFacts(f, concepts, context_id) \ {i} :
          Yields(NumericValue(f.facts[j]), j, NumericValue(f.facts[i]), i)}

\* The findings of a rule run that name this context in their message
FindingsOfContext(findings, context_id) ==
    SelectSeq(findings, LAMBDA x : x.message[2] = context_id)

\* C21: BalanceSheetEquationRule never raises; for every context with a best
\* Assets, a best Liabilities and a best Equity fact (the numeric fact of the
\* family with the largest absolute value, the later one on a tie) it emits
\* exactly one error iff |A - (L + E)| exceeds the sum of the three
\* tolerances, and the error carries that difference and that tolerance and
\* names the three facts; for a context without one of the three it emits
\* nothing.
C21_BalanceSheetEquation ==
    (ruleRun # NoValue /\ ruleRun.rule_id = "acct.balance_sheet_equation") =>
      /\ ruleRun.raised = None
      /\ \A context_id \in {"c1", "c2", "cX"} :
           LET f == ruleRun.filing
               found == FindingsOfContext(ruleRun.findings, context_id)
               A == BestFacts(f, assets_concepts, context_id)
               L == BestFacts(f, liabilities_concepts, context_id)
               E == BestFacts(f, equity_concepts, context_id)
           IN  IF A = {} \/ L = {} \/ E = {} THEN found = <<>>
               ELSE \A a \in A, l \in L, e \in E :
                      LET a_val == NumericValue(f.facts[a])
                          l_val == NumericValue(f.facts[l])
                          e_val == NumericValue(f.facts[e])
                          tolerance == _rounding_tolerance(f.facts[a].decimals)
                                         + _rounding_tolerance(f.facts[l].decimals)
                                         + _rounding_tolerance(f.facts[e].decimals)
                      IN  IF /\ NaN \notin {a_val, l_val, e_val}
                             /\ Abs(a_val.i - (l_val.i + e_val.i)) > tolerance
                          THEN /\ Len(found) = 1
                               /\ found[1].severity = "error"
                               /\ found[1].fact_ids
                                    = <<f.facts[a].id, f.facts[l].id, f.facts[e].id>>
                               /\ found[1].details
                                    = <<<<"difference",
                                          PyInt(Abs(a_val.i - (l_val.i + e_val.i)))>>,
                                        <<"tolerance", tolerance>>>>
                          ELSE found = <<>>

\* Two facts share the key {concept, context_id, unit, dimensions}
SameKey(f, i, j) == CanonicalKey(f.facts[i]) = CanonicalKey(f.facts[j])

\* |a - b| <= tolerance(a) + tolerance(b) for two facts with finite values
AgreeWithinTolerance(a, b) ==
    /\ NumericValue(a).t = "int" /\ NumericValue(b).t = "int"
    /\ Abs(NumericValue(a).i - NumericValue(b).i)
         <= _value_tolerance_for_fact(a) + _value_tolerance_for_fact(b)

\* |a - b| > tolerance(a) + tolerance(b) for two facts with finite values
DifferBeyondTolerance(a, b) ==
    /\ NumericValue(a).t = "int" /\ NumericValue(b).t = "int"
    /\ Abs(NumericValue(a).i - NumericValue(b).i)
         > _value_tolerance_for_fact(a) + _value_tolerance_for_fact(b)

\* C22: DuplicateFactConflictRule reports at least one error when two facts
\* of the filing share a key and differ by more than the sum of their
\* tolerances, whichever two they are, and reports nothing when every two
\* facts that share a key agree within the sum of their tolerances.
C22_DuplicateConflictAnyPair ==
    (ruleRun # NoValue /\ ruleRun.rule_id = "xbrl.duplicate_fact_conflict") =>
      LET f == ruleRun.filing
          pairs == {p \in (DOMAIN f.facts) \X (DOMAIN f.facts) :
                      p[1] < p[2] /\ SameKey(f, p[1], p[2])}
      IN  /\ ruleRun.raised = None
          /\ (\E p \in pairs : DifferBeyondTolerance(f.facts[p[1]], f.facts[p[2]]))
               => \E k \in DOMAIN ruleRun.findings :
                     ruleRun.findings[k].severity = "error"
          /\ (\A p \in pairs : AgreeWithinTolerance(f.facts[p[1]], f.facts[p[2]]))
               => ruleRun.findings = <<>>

\* The facts of a filing whose context_id is not a key of filing.contexts
UnresolvedFacts(f) ==
    {i \in DOMAIN f.facts : f.facts[i].context_id \notin DictKeys(f.contexts)}

\* C23: ContextReferenceRule never raises and returns only
\* ixbrl.context_reference_exists errors that name a single fact; it returns
\* as many of them naming a fact id as the filing has facts with that id
\* whose context_id is not a key of filing.contexts: one for each such fact,
\* none for a fact whose context resolves.
C23_OneErrorPerUnresolvedFact ==
    (ruleRun # NoValue /\ ruleRun.rule_id = "ixbrl.context_reference_exists") =>
      LET f == ruleRun.filing
          findings == ruleRun.findings
      IN  /\ ruleRun.raised = None
          /\ \A k \in DOMAIN findings :
               /\ findings[k].rule_id = "ixbrl.context_reference_exists"
               /\ findings[k].severity = "error"
               /\ \E i \in DOMAIN f.facts : findings[k].fact_ids = <<f.facts[i].id>>
          /\ \A i \in DOMAIN f.facts :
               Cardinality({k \in DOMAIN findings :
                              findings[k].fact_ids = <<f.facts[i].id>>})
                 = Cardinality({j \in UnresolvedFacts(f) :
                                  f.facts[j].id = f.facts[i].id})

\* The rule has run on a filing with two facts in an unknown context and two
\* in a known one, and has returned two errors
C23_Witness ==
    /\ ruleRun # NoValue
    /\ ruleRun.rule_id = "ixbrl.context_reference_exists"
    /\ Len(ruleRun.filing.facts) = 4
    /\ Cardinality(UnresolvedFacts(ruleRun.filing)) = 2
    /\ Len(ruleRun.findings) = 2

-----------------------------------------------------------------------------
(* SpecConc: one ValidationEngine is built and several calls of its validate *)
(* run at the same time, on one of two filings, each with a trace sink of    *)
(* its own or none.  A call takes a step when it enters validate, at every   *)
(* turn of the loop over self.rules, and when it returns.                    *)

MaxCalls == 2

\* Filings: one without facts, one with a fact in an unknown context, one
\* with two conflicting duplicates below zero
ConcObjects ==
    {RawFiling(<<<<"c1", InstantContext>>>>, <<>>),
     RawFiling(<<<<"c1", InstantContext>>>>, <<RawFact(None, "cX", 20)>>),
     RawFiling(<<<<"c1", InstantContext>>>>,
               <<RawFact(None, "c1", -10), RawFact(None, "c1", 20)>>)}

\* The rule lists the engine is built with: two profiles, the taxonomy rule
\* with another, and one rule twice
ConcRuleLists ==
    {_companyfacts_consistency_rules, _ixbrl_gating_rules,
     <<"acct.assets_negative", "taxonomy.calculation_no_cycles">>,
     <<"xbrl.duplicate_fact_conflict", "xbrl.duplicate_fact_conflict">>}

InitConc ==
    /\ obj \in ConcObjects
    /\ obj2 = RawFiling(<<<<"c1", InstantContext>>>>, <<RawFact(None, "c1", -10)>>)
    /\ Unset

\* ValidationEngine(rules=rules), and the two filings read
CreateEngine ==
    /\ engine = NoValue
    /\ \E ruleList \in ConcRuleLists : engine' = [rules |-> ruleList]
    /\ filing' = FilingFromDict(obj)
    /\ filing2' = FilingFromDict(obj2)
    /\ calls' = [t \in 1..MaxCalls |-> [pc |-> "idle"]]
    /\ UNCHANGED <<obj, obj2, roundTrip, run, run2, issued, pack, http, cert,
                   signed, verification, laterVars, ruleRun, tailVars>>

\* The filing a call was given
FilingOf(call) == IF call.which = 1 THEN filing ELSE filing2

\* validate(filing, trace_logger) up to the loop
CallValidate(t) ==
    /\ engine # NoValue
    /\ calls[t].pc = "idle"
    /\ \E which \in {1, 2}, traced \in BOOLEAN :
         LET f == IF which = 1 THEN filing ELSE filing2
         IN  calls' = [calls EXCEPT ![t] =
                         [pc |-> "loop", which |-> which, traced |-> traced,
                          k |-> 1, executed |-> <<>>, findings |-> <<>>,
                          input_digest |-> InputDigest(f),
                          sink |-> Log(IF traced THEN NewTraceLogger ELSE NoValue,
                                       [event_type |-> "validation.start",
                                        input_digest |-> InputDigest(f)]),
                          raised |-> None, result |-> NoValue]]
    /\ UNCHANGED <<firstVars, laterVars, ruleRun, engine, tailVars>>

\* for rule in self.rules, were self.rules an iterator that the calls share
NextRule_SharedIterator(eng, call) ==
    [exhausted |-> eng.rules = <<>>,
     rule_id |-> IF eng.rules = <<>> THEN NoValue ELSE Head(eng.rules),
     engine |-> IF eng.rules = <<>> THEN eng ELSE [eng EXCEPT !.rules = Tail(@)]]

\* for rule in self.rules: the next rule of this call's iteration over the
\* list, and the engine afterwards
NextRule(eng, call) ==
    [exhausted |-> call.k > Len(eng.rules),
     rule_id |-> IF call.k > Len(eng.rules) THEN NoValue ELSE eng.rules[call.k],
     engine |-> eng]

\* One turn of the loop of validate: the rule is run on the call's filing
\* and its findings are added and logged, or its fault leaves validate
RuleTurn(call, rule_id, f) ==
    LET After(started, ran) ==
            IF ran.raised # None
            THEN [call EXCEPT !.pc = "raised", !.raised = ran.raised,
                              !.executed = Append(@, rule_id), !.sink = started]
            ELSE [call EXCEPT
                    !.k = @ + 1,
                    !.executed = Append(@, rule_id),
                    !.findings = @ \o ran.findings,
                    !.sink = LogFindings(
                               Log(started,
                                   [event_type |-> "rule.end", rule_id |-> rule_id,
                                    finding_count |-> Len(ran.findings),
                                    severities |-> [i \in 1..Len(ran.findings) |->
                                                      ran.findings[i].severity]]),
                               ran.findings, 1)]
    IN  After(Log(call.sink, [event_type |-> "rule.start", rule_id |-> rule_id]),
              RunRule(rule_id, f))

RunNextRule(t) ==
    /\ engine # NoValue
    /\ calls[t].pc = "loop"
    /\ ~NextRule(engine, calls[t]).exhausted
    /\ calls' = [calls EXCEPT ![t] =
                   RuleTurn(calls[t], NextRule(engine, calls[t]).rule_id,
                            FilingOf(calls[t]))]
    /\ engine' = NextRule(engine, calls[t]).engine
    /\ UNCHANGED <<firstVars, laterVars, ruleRun, tailVars>>

\* The loop is over: validation.end is logged and the result returned
ReturnResult(t) ==
    /\ engine # NoValue
    /\ calls[t].pc = "loop"
    /\ NextRule(engine, calls[t]).exhausted
    /\ calls' = [calls EXCEPT ![t] =
                   [@ EXCEPT !.pc = "done",
                             !.sink = Log(@, [event_type |-> "validation.end",
                                              total_findings |-> Len(calls[t].findings)]),
                             !.result = ValidationResult(calls[t].input_digest,
                                                         calls[t].executed,
                                                         calls[t].findings)]]
    /\ engine' = NextRule(engine, calls[t]).engine
    /\ UNCHANGED <<firstVars, laterVars, ruleRun, tailVars>>

NextConc ==
    \/ CreateEngine
    \/ \E t \in 1..MaxCalls : CallValidate(t)
    \/ \E t \in 1..MaxCalls : RunNextRule(t)
    \/ \E t \in 1..MaxCalls : ReturnResult(t)

SpecConc == InitConc /\ [][NextConc]_vars

\* What a call of validate that has ended gave: its exception, its result
\* and the lines of its sink
Outcome(call) == [raised |-> call.raised, result |-> call.result, sink |-> call.sink]

\* C24: whatever the interleaving of the calls, a call of validate that has
\* ended has raised or returned, and written to its sink, what validate
\* gives for its filing and the engine's rules when it runs alone; and no
\* step of any call changes the engine's rule list or either filing.
C24_ConcurrentValidate ==
    /\ [](engine # NoValue =>
            \A t \in 1..MaxCalls :
               calls[t].pc \in {"done", "raised"} =>
                 Outcome(calls[t])
                   = Validate(IF calls[t].which = 1 THEN FilingFromDict(obj)
                              ELSE FilingFromDict(obj2),
                              engine.rules,
                              IF calls[t].traced THEN NewTraceLogger ELSE NoValue))
    /\ [][engine # NoValue =>
            engine' = engine /\ filing' = filing /\ filing2' = filing2]_vars

\* Two calls on the same filing, both traced, are in the loop at different
\* rules, one of them with findings
C24_Witness ==
    /\ engine # NoValue
    /\ calls[1].pc = "loop" /\ calls[2].pc = "loop"
    /\ calls[1].which = calls[2].which
    /\ calls[1].traced /\ calls[2].traced
    /\ calls[1].k = 3 /\ calls[2].k = 2
    /\ calls[1].findings # <<>>

-----------------------------------------------------------------------------
(* SpecPilot: build_readiness_report (pilot_readiness.py) over the           *)
(* ixbrl-gating profile as profiles.py builds it, every rule of it named     *)

\* rule.rule_id for the rules of _core_structural_rules()
core_structural_rule_ids ==
    <<"ixbrl.context_reference_exists", "xbrl.context_period_semantics",
      "xbrl.concept_qname", "xbrl.dimension_context_consistency",
      "ixbrl.numeric_fact_unit", "ixbrl.decimals_format",
      "xbrl.numeric_fact_finite", "xbrl.unit_consistency",
      "xbrl.duplicate_fact_conflict", "dei.metadata_consistency">>

\* rule.rule_id for the rules of _ixbrl_preflight_rules()
ixbrl_preflight_rule_ids ==
    <<"ixbrl.inline_metadata_presence", "ixbrl.primary_document_constraints",
      "ixbrl.inline_attachment_html", "ixbrl.disallowed_html",
      "ixbrl.external_reference_constraints", "ixbrl.submission_suspension_risk">>

\* rule.rule_id for the rules of _taxonomy_rules()
taxonomy_rule_ids ==
    <<"taxonomy.metadata_presence", "taxonomy.namespace_prefix_consistency",
      "taxonomy.label_constraints", "taxonomy.relationship_target_exists",
      "taxonomy.calculation_no_cycles",
      "taxonomy.custom_concept_relationship_coverage">>

\* [rule.rule_id for rule in get_profile("ixbrl-gating")]
ixbrl_gating_rule_ids ==
    core_structural_rule_ids \o ixbrl_preflight_rule_ids \o taxonomy_rule_ids
      \o <<"ixbrl.required_concepts">>

\* The rule ids in Python's (code point) order
RuleIdOrder ==
    <<"dei.metadata_consistency", "ixbrl.context_reference_exists",
      "ixbrl.decimals_format", "ixbrl.disallowed_html",
      "ixbrl.external_reference_constraints", "ixbrl.inline_attachment_html",
      "ixbrl.inline_metadata_presence", "ixbrl.numeric_fact_unit",
      "ixbrl.primary_document_constraints", "ixbrl.required_concepts",
      "ixbrl.submission_suspension_risk", "taxonomy.calculation_no_cycles",
      "taxonomy.custom_concept_relationship_coverage",
      "taxonomy.label_constraints", "taxonomy.metadata_presence",
      "taxonomy.namespace_prefix_consistency",
      "taxonomy.relationship_target_exists", "xbrl.concept_qname",
      "xbrl.context_period_semantics", "xbrl.dimension_context_consistency",
      "xbrl.duplicate_fact_conflict", "xbrl.numeric_fact_finite",
      "xbrl.unit_consistency">>

\* sorted(rule_ids) for a list of different rule ids
SortedIds(rule_ids) ==
    SelectSeq(RuleIdOrder, LAMBDA x : \E i \in DOMAIN rule_ids : rule_ids[i] = x)

\* r.startswith(prefix) for a rule id and the prefixes "ixbrl." and "taxonomy."
StartsWith(r, prefix) ==
    \E i \in 2..17 :
       /\ RuleIdOrder[i] = r
       /\ prefix = (IF i <= 11 THEN "ixbrl." ELSE "taxonomy.")

\* str.strip() on the texts of the model
Strip(s) ==
    CASE s = " " -> ""
      [] s = " blocked " -> "blocked"
      [] OTHER -> s

\* The defaults of build_readiness_report
DefaultMinRules == 30

DefaultMaxRules == 50

DefaultMinFilings == 50

DefaultMaxFilings == 100

ReadinessCheck(check_id, status_, details) ==
    [check_id |-> check_id, status |-> status_, details |-> details]

Fixtures == <<"examples/filing_clean.json", "examples/filing_risky.json">>

\* build_readiness_report(min_rules, max_rules, min_filings, max_filings,
\* user_agent) where FORMALFINANCE_USER_AGENT is env_user_agent ("" when
\* unset), the fixtures in exist are files, and the baseline module can
\* (importable) or cannot be imported
build_readiness_report(min_rules, max_rules, min_filings, max_filings, user_agent, env_user_agent, exist, importable) ==
    LET rule_ids == ixbrl_gating_rule_ids
        total_rules == Len(rule_ids)
        ixbrl_rules == SelectSeq(rule_ids, LAMBDA r : StartsWith(r, "ixbrl."))
        taxonomy_rules == SelectSeq(rule_ids, LAMBDA r : StartsWith(r, "taxonomy."))
        ua == Strip(IF Truthy(user_agent) THEN user_agent ELSE env_user_agent)
        missing == SelectSeq(Fixtures, LAMBDA path : path \notin exist)
        checks ==
            <<ReadinessCheck("rule_count_window",
                             IF min_rules <= total_rules /\ total_rules <= max_rules
                             THEN "pass" ELSE "fail",
                             [total_rules |-> total_rules, target_min |-> min_rules,
                              target_max |-> max_rules]),
              ReadinessCheck("scope_rule_coverage",
                             IF ixbrl_rules # <<>> /\ taxonomy_rules # <<>>
                             THEN "pass" ELSE "fail",
                             [ixbrl_rule_count |-> Len(ixbrl_rules),
                              taxonomy_rule_count |-> Len(taxonomy_rules)]),
              ReadinessCheck("sample_size_target",
                             IF min_filings <= max_filings /\ min_filings > 0
                             THEN "pass" ELSE "fail",
                             [target_min_filings |-> min_filings,
                              target_max_filings |-> max_filings]),
              IF ua # ""
              THEN ReadinessCheck("sec_user_agent", "pass", [user_agent |-> ua])
              ELSE ReadinessCheck("sec_user_agent", "warn",
                                  [env_var |-> "FORMALFINANCE_USER_AGENT"]),
              IF missing # <<>>
              THEN ReadinessCheck("fixtures_present", "fail", [missing |-> missing])
              ELSE ReadinessCheck("fixtures_present", "pass", [files |-> Fixtures]),
              IF importable
              THEN ReadinessCheck("baseline_comparison_tooling", "pass",
                                  [module |-> "formalfinance.baseline_compare"])
              ELSE ReadinessCheck("baseline_comparison_tooling", "fail",
                                  [error |-> "ImportError"])>>
        failed == SelectSeq(checks, LAMBDA check : check.status = "fail")
        warnings == SelectSeq(checks, LAMBDA check : check.status = "warn")
    IN  [schema_version |-> "formalfinance.pilot_readiness.v0",
         target |-> [sample_size_range |-> <<min_filings, max_filings>>,
                     rule_count_range |-> <<min_rules, max_rules>>],
         summary |-> [ready |-> failed = <<>>,
                      failed_checks |-> Len(failed),
                      warning_checks |-> Len(warnings),
                      total_checks |-> Len(checks)],
         checks |-> checks,
         next_actions |-> [i \in 1..Len(failed) |-> failed[i].check_id]
                            \o [i \in 1..Len(warnings) |-> warnings[i].check_id],
         rule_ids |-> SortedIds(rule_ids)]

InitPilot ==
    /\ obj = NoValue
    /\ obj2 = NoValue
    /\ Unset

\* build_readiness_report is called, with its defaults or other windows
BuildReadinessReport ==
    /\ readiness = NoValue
    /\ \E min_rules \in {DefaultMinRules, 20, 24},
          max_rules \in {DefaultMaxRules, 22, 23},
          min_filings \in {DefaultMinFilings, 0, 101},
          user_agent \in {None, "", "FormalFinance/0.1.0 test@example.com"},
          env_user_agent \in {"", " ", "env-agent"},
          exist \in SUBSET {Fixtures[1], Fixtures[2]},
          importable \in BOOLEAN :
         readiness' =
           [min_rules |-> min_rules, max_rules |-> max_rules,
            report |-> build_readiness_report(min_rules, max_rules, min_filings,
                                              DefaultMaxFilings, user_agent,
                                              env_user_agent, exist, importable)]
    /\ UNCHANGED <<firstVars, laterVars, ruleRun, engine, calls, service,
                   response, triage, update>>

NextPilot ==
    \/ BuildReadinessReport

SpecPilot == InitPilot /\ [][NextPilot]_vars

\* C25: the ixbrl-gating profile has at least 30 and at most 50 rules, and
\* so the rule_count_window check of a readiness report built with the
\* default window passes.
C25_RuleCountInWindow ==
    (/\ readiness # NoValue
     /\ readiness.min_rules = DefaultMinRules
     /\ readiness.max_rules = DefaultMaxRules) =>
      /\ Len(ixbrl_gating_rule_ids) >= 30
      /\ Len(ixbrl_gating_rule_ids) <= 50
      /\ readiness.report.checks[1].check_id = "rule_count_window"
      /\ readiness.report.checks[1].status = "pass"

-----------------------------------------------------------------------------
(* The HTTP service: api.py and security.py. A header value is the sequence
   of its space-separated words; an address is its four octets; the clock
   counts whole minutes, so that a bucket's tokens stay integers. *)

MaxRequests == 2

Ip(a, b, c, d) == <<a, b, c, d>>

\* ipaddress.ip_network("a.b.c.d/prefix", strict=False) for prefix 8 or 16
Network(address, prefix) == [address |-> address, prefix |-> prefix]

\* ip in network
InNetwork(ip, network) ==
    \A i \in 1..(network.prefix \div 8) : ip[i] = network.address[i]

\* CIDRAllowlist.allows(ip)
CIDRAllowlist_allows(networks, ip) ==
    IF networks = <<>> THEN TRUE
    ELSE \E i \in DOMAIN networks : InNetwork(ip, networks[i])

\* auth.lower().startswith("bearer "): the first word is bearer and a space
\* follows it
IsBearer(auth) == Len(auth) >= 2 /\ Lower(auth[1]) = "bearer"

\* auth.split(" ", 1)[1].strip() where one word follows the scheme
BearerToken(auth) == Strip(auth[2])

\* (headers.get("x-api-key") or "").strip()
XApiKey(headers) ==
    IF "x-api-key" \in DOMAIN headers THEN Strip(headers["x-api-key"]) ELSE ""

\* (headers.get("authorization") or "").strip(), as words
Authorization(headers) ==
    IF "authorization" \in DOMAIN headers THEN headers["authorization"] ELSE <<>>

\* key in self.config.api_keys
InKeys(key, api_keys) == \E i \in DOMAIN api_keys : api_keys[i] = key

\* FormalFinanceService._is_authorized with every bearer token accepted
_is_authorized_AnyBearer(config, headers) ==
    IF config.api_keys = <<>> THEN TRUE
    ELSE IF XApiKey(headers) # "" /\ InKeys(XApiKey(headers), config.api_keys)
    THEN TRUE
    ELSE IsBearer(Authorization(headers))

\* FormalFinanceService._is_authorized
_is_authorized(config, headers) ==
    IF config.api_keys = <<>> THEN TRUE
    ELSE IF XApiKey(headers) # "" /\ InKeys(XApiKey(headers), config.api_keys)
    THEN TRUE
    ELSE IF IsBearer(Authorization(headers))
    THEN InKeys(BearerToken(Authorization(headers)), config.api_keys)
    ELSE FALSE

\* FormalFinanceService._rate_limit_key
_rate_limit_key(headers, remote_addr) ==
    IF XApiKey(headers) # "" THEN <<"key", XApiKey(headers)>>
    ELSE IF IsBearer(Authorization(headers))
    THEN <<"bearer", BearerToken(Authorization(headers))>>
    ELSE <<"ip", remote_addr>>

Min(a, b) == IF a <= b THEN a ELSE b

\* InMemoryRateLimiter(rate_per_minute)
InMemoryRateLimiter(rate_per_minute) ==
    [rate_per_minute |-> rate_per_minute,
     capacity |-> IF rate_per_minute >= 1 THEN rate_per_minute ELSE 1,
     state |-> <<>>]

\* InMemoryRateLimiter.allow(key) at time now: the answer and the limiter
\* afterwards
InMemoryRateLimiter_allow(limiter, key, now) ==
    LET known == key \in DictKeys(limiter.state)
        tokens == IF known THEN DictGet(limiter.state, key)[1] ELSE limiter.capacity
        updated_at == IF known THEN DictGet(limiter.state, key)[2] ELSE now
        elapsed == IF now - updated_at >= 0 THEN now - updated_at ELSE 0
        refilled == Min(limiter.capacity, tokens + elapsed * limiter.rate_per_minute)
    IN  IF refilled < 1
        THEN [allowed |-> FALSE,
              limiter |-> [limiter EXCEPT
                             !.state = DictSet(@, key, <<refilled, now>>)]]
        ELSE [allowed |-> TRUE,
              limiter |-> [limiter EXCEPT
                             !.state = DictSet(@, key, <<refilled - 1, now>>)]]

\* FormalFinanceService(config), started at minute 0 with an empty run store
FormalFinanceService(config) ==
    [config |-> config,
     store |-> <<>>,
     rate_limiter |-> InMemoryRateLimiter(config.rate_limit_per_minute),
     allowlist |-> config.allowlist_cidrs,
     now |-> 0]

\* RunStore.log_run: the row is added to the runs
log_run(store, endpoint, status_, errors, warnings) ==
    Append(store, [run_id |-> Len(store) + 1, endpoint |-> endpoint,
                   status |-> status_, error_count |-> errors,
                   warning_count |-> warnings])

\* RunStore.list_runs: newest first
list_runs(store) == Reversed(store)

\* What handle gives: the status code and body or the exception raised, the
\* service afterwards, whether run_validation was called and the certificate
\* that was issued
Handled(code, body, raised, svc, validated, issuedCertificate) ==
    [code |-> code, body |-> body, raised |-> raised, service |-> svc,
     validated |-> validated, issuedCertificate |-> issuedCertificate]

\* The routes of FormalFinanceService.handle, after its gates
Route(svc, request) ==
    LET method == request.method
        path == request.path
    IN  IF path = "/v1/runs" /\ method = "GET"
        THEN Handled(200, [runs |-> list_runs(svc.store)], None, svc, FALSE, NoValue)
        ELSE IF path = "/v1/pilot-readiness" /\ method \in {"GET", "POST"}
        THEN LET Logged(report) ==
                   LET stored == log_run(svc.store, path,
                                         IF report.summary.ready THEN "ready"
                                         ELSE "not_ready",
                                         report.summary.failed_checks,
                                         report.summary.warning_checks)
                   IN  Handled(200, [run_id |-> Len(stored), report |-> report],
                               None, [svc EXCEPT !.store = stored], FALSE, NoValue)
             IN  Logged(build_readiness_report(DefaultMinRules, DefaultMaxRules,
                                               DefaultMinFilings, DefaultMaxFilings,
                                               None, "", {}, TRUE))
        ELSE IF path \in {"/v1/validate", "/v1/certify"} /\ method = "POST"
        THEN LET Certified(c) ==
                   IF c.raised # None
                   THEN Handled(0, NoValue, c.raised, svc, TRUE, c.issuedCertificate)
                   ELSE Handled(c.code, c.body, None,
                                [svc EXCEPT
                                   !.store = log_run(@, path, "clean", 0, 0)],
                                TRUE, c.issuedCertificate)
             IN  Certified(handle_certify(request.payload.filing,
                                          request.payload.profile,
                                          svc.config.cert_signing_secret))
        ELSE Handled(404, [error |-> "not_found"], None, svc, FALSE, NoValue)

\* FormalFinanceService.handle at minute now
handle(svc, request, now) ==
    IF ~CIDRAllowlist_allows(svc.allowlist, request.remote_addr)
    THEN Handled(403, [error |-> "forbidden"], None, svc, FALSE, NoValue)
    ELSE LET Limited(turn) ==
               LET after == [svc EXCEPT !.rate_limiter = turn.limiter]
               IN  IF ~turn.allowed
                   THEN Handled(429, [error |-> "rate_limited"], None, after,
                                FALSE, NoValue)
                   ELSE IF request.path = "/v1/healthz" /\ request.method = "GET"
                   THEN Handled(200,
                                [status |-> "ok",
                                 certificate_signing_enabled |->
                                    Truthy(svc.config.cert_signing_secret)],
                                None, after, FALSE, NoValue)
                   ELSE IF ~_is_authorized(svc.config, request.headers)
                   THEN Handled(401, [error |-> "unauthorized"], None, after,
                                FALSE, NoValue)
                   ELSE Route(after, request)
         IN  Limited(InMemoryRateLimiter_allow(
                       svc.rate_limiter,
                       _rate_limit_key(request.headers, request.remote_addr), now))

ServiceConfigs ==
    {[api_keys |-> api_keys, allowlist_cidrs |-> allowlist_cidrs,
      rate_limit_per_minute |-> rate, cert_signing_secret |-> None] :
        api_keys \in {<<>>, <<"test-key">>},
        allowlist_cidrs \in {<<>>, <<Network(Ip(10, 0, 0, 0), 8)>>},
        rate \in {1}}

RequestHeaders ==
    {<<>>,
     [h \in {"x-api-key"} |-> "test-key"],
     [h \in {"x-api-key"} |-> "wrong-key"],
     [h \in {"authorization"} |-> <<"Bearer", "test-key">>],
     [h \in {"authorization"} |-> <<"Bearer", "wrong-key">>],
     [h \in {"authorization"} |-> <<"Basic", "test-key">>]}

RequestRoutes ==
    {<<"GET", "/v1/healthz">>, <<"POST", "/v1/healthz">>, <<"GET", "/v1/runs">>,
     <<"GET", "/v1/pilot-readiness">>, <<"POST", "/v1/certify">>,
     <<"GET", "/v1/nope">>}

Requests ==
    {[method |-> route[1], path |-> route[2], headers |-> headers,
      remote_addr |-> remote_addr,
      payload |-> [filing |-> RawFiling(<<<<"c1", InstantContext>>>>,
                                        <<RawFact("f1", "c1", 10)>>),
                   profile |-> "companyfacts-consistency"]] :
        route \in RequestRoutes,
        headers \in RequestHeaders,
        remote_addr \in {Ip(10, 1, 2, 3), Ip(192, 168, 0, 1)}}

InitService ==
    /\ obj = NoValue
    /\ obj2 = NoValue
    /\ Unset

\* FormalFinanceService(config) is constructed
StartService ==
    /\ service = NoValue
    /\ \E config \in ServiceConfigs : service' = FormalFinanceService(config)
    /\ response' = [served |-> 0]
    /\ UNCHANGED <<firstVars, laterVars, ruleRun, engine, calls, readiness,
                   triage, update>>

\* One request is dispatched, elapsed minutes after the one before it; an
\* exception that escapes handle is answered with status 500. response is
\* the latest answer and the number of requests served so far
Handle ==
    /\ service # NoValue
    /\ response.served < MaxRequests
    /\ \E request \in Requests, elapsed \in {0, 1} :
         LET Dispatched(result) ==
               /\ service' = [result.service EXCEPT !.now = service.now + elapsed]
               /\ response' =
                    [served |-> response.served + 1, request |-> request,
                     before |-> service,
                     code |-> IF result.raised # None THEN 500 ELSE result.code,
                     raised |-> result.raised, body |-> result.body,
                     validated |-> result.validated,
                     issuedCertificate |-> result.issuedCertificate]
         IN  Dispatched(handle(service, request, service.now + elapsed))
    /\ UNCHANGED <<firstVars, laterVars, ruleRun, engine, calls, readiness,
                   triage, update>>

NextService == StartService \/ Handle

SpecService == InitService /\ [][NextService]_vars

\* The latest request came from an address the allowlist admits
AddressAdmitted ==
    \/ response.before.config.allowlist_cidrs = <<>>
    \/ response.request.remote_addr[1] = 10

\* The latest request carries the configured key, as X-API-Key or as a Bearer
\* token
CarriesValidKey ==
    \/ /\ "x-api-key" \in DOMAIN response.request.headers
       /\ response.request.headers["x-api-key"] = "test-key"
    \/ /\ "authorization" \in DOMAIN response.request.headers
       /\ response.request.headers["authorization"] = <<"Bearer", "test-key">>

IsPublicHealthz ==
    response.request.method = "GET" /\ response.request.path = "/v1/healthz"

\* The bucket of the latest request was empty when it arrived: its key had
\* spent its token and no minute had passed since
BucketEmpty ==
    LET key == _rate_limit_key(response.request.headers, response.request.remote_addr)
        state == response.before.rate_limiter.state
    IN  /\ key \in DictKeys(state)
        /\ DictGet(state, key)[1] = 0
        /\ DictGet(state, key)[2] = service.now

\* Nothing was validated, issued or logged by the latest request
NoEffect ==
    /\ service.store = response.before.store
    /\ ~response.validated
    /\ response.issuedCertificate = NoValue

\* C26: handle() gates every request in the order allowlist (403), rate limit
\* (429), public GET /v1/healthz (200), authorization (401), routing: an
\* address outside the allowlist gets 403 and touches nothing, not even its
\* bucket; an admitted request takes its turn at the rate limiter and gets 429
\* exactly when its bucket is empty; past that, GET /v1/healthz gets 200 with
\* or without a key; past that, with API keys configured a request without a
\* valid X-API-Key or Bearer token gets 401, and only such a request does; a
\* request answered 403, 429 or 401 has validated no filing, issued no
\* certificate and logged no run.
C26_GatingOrder ==
    (service # NoValue /\ response.served > 0) =>
      /\ ~AddressAdmitted =>
           /\ response.code = 403
           /\ service = [response.before EXCEPT !.now = service.now]
      /\ AddressAdmitted =>
           /\ _rate_limit_key(response.request.headers, response.request.remote_addr)
                \in DictKeys(service.rate_limiter.state)
           /\ (response.code = 429) <=> BucketEmpty
      /\ (AddressAdmitted /\ ~BucketEmpty /\ IsPublicHealthz) => response.code = 200
      /\ (AddressAdmitted /\ ~BucketEmpty /\ ~IsPublicHealthz) =>
           ((response.code = 401) <=>
              (response.before.config.api_keys # <<>> /\ ~CarriesValidKey))
      /\ response.code \in {401, 403, 429} => NoEffect

\* With a key configured, a request for a certificate that carries a wrong key
\* was answered 401 after a run had been logged by an earlier request
C26_Witness ==
    /\ service # NoValue
    /\ response.served = 2
    /\ response.before.config.api_keys = <<"test-key">>
    /\ response.request.path = "/v1/certify"
    /\ response.request.headers \in
         {[h \in {"x-api-key"} |-> "wrong-key"],
          [h \in {"authorization"} |-> <<"Bearer", "wrong-key">>]}
    /\ response.code = 401
    /\ Len(service.store) = 1

\* With a key configured, GET /v1/healthz without any header was answered 200
C26_HealthzPublic ==
    /\ service # NoValue
    /\ response.served > 0
    /\ response.before.config.api_keys = <<"test-key">>
    /\ IsPublicHealthz
    /\ response.request.headers = <<>>
    /\ response.code = 200

-----------------------------------------------------------------------------
(* The triage tracker: triage.py. A finding id such as "r1:0002" is the pair
   of its rule id and its number; _utc_now() reads a clock that ticks once an
   operation. *)

MaxFindings == 2

MaxUpdates == 2

VALID_STATUSES == {"open", "in_progress", "blocked", "resolved", "accepted_risk"}

\* f"{rule_id}:{idx:04d}"
FindingIdText(rule_id, idx) == <<rule_id, idx>>

\* _priority_for_severity(str(severity or ""))
_priority_for_severity(severity) ==
    LET lowered == Lower(IF Truthy(severity) THEN severity ELSE "")
    IN  IF lowered = "error" THEN "high"
        ELSE IF lowered = "warning" THEN "medium"
        ELSE "low"

\* The issues that the loop of init_triage_from_report builds from the
\* findings numbered idx onwards
RECURSIVE TriageIssues(_, _, _, _)
TriageIssues(findings, idx, owner, now) ==
    IF idx > Len(findings) THEN <<>>
    ELSE LET finding == findings[idx]
             rest == TriageIssues(findings, idx + 1, owner, now)
         IN  IF ~IsDict(finding) THEN rest
             ELSE <<[finding_id |->
                        IF finding.finding_id.t = "str" THEN finding.finding_id.s
                        ELSE FindingIdText(IF Truthy(finding.rule_id)
                                           THEN finding.rule_id ELSE "finding",
                                           idx),
                     rule_id |-> finding.rule_id,
                     severity |-> finding.severity,
                     message |-> finding.message,
                     status |-> "open",
                     priority |-> _priority_for_severity(finding.severity),
                     assignee |-> owner,
                     notes |-> <<>>,
                     last_updated_at |-> now]>> \o rest

\* init_triage_from_report(report, owner=owner) at time now
init_triage_from_report(report, owner, now) ==
    [schema_version |-> "formalfinance.triage.v0",
     created_at |-> now,
     updated_at |-> now,
     input_digest |-> report.input_digest,
     profile |-> report.profile,
     issues |-> TriageIssues(report.findings, 1, owner, now)]

\* update.status.strip().lower() if update.status else None
NormalizedStatus(status_) ==
    IF Truthy(status_) THEN Lower(Strip(status_)) ELSE None

\* The issue after the body of the loop of apply_triage_update
UpdatedIssue(issue, status_, u, now) ==
    [issue EXCEPT
       !.status = IF Truthy(status_) THEN status_ ELSE @,
       !.assignee = IF u.assignee # None THEN u.assignee ELSE @,
       !.notes = IF Truthy(u.note)
                 THEN Append(@, [timestamp |-> now, note |-> u.note]) ELSE @,
       !.last_updated_at = now]

\* apply_triage_update with the break of its loop left out
apply_triage_update_NoBreak(t, u, now) ==
    LET status_ == NormalizedStatus(u.status)
        matches == {i \in DOMAIN t.issues : t.issues[i].finding_id = u.finding_id}
    IN  IF Truthy(status_) /\ status_ \notin VALID_STATUSES
        THEN [raised |-> "ValueError", triage |-> t]
        ELSE IF matches = {}
        THEN [raised |-> "ValueError", triage |-> t]
        ELSE [raised |-> None,
              triage |->
                [t EXCEPT
                   !.issues = [i \in DOMAIN t.issues |->
                                 IF i \in matches
                                 THEN UpdatedIssue(t.issues[i], status_, u, now)
                                 ELSE t.issues[i]],
                   !.updated_at = now]]

\* apply_triage_update(triage, update) at time now: the exception raised, if
\* any, and the triage dict afterwards (it is updated in place)
apply_triage_update(t, u, now) ==
    LET status_ == NormalizedStatus(u.status)
        matches == {i \in DOMAIN t.issues : t.issues[i].finding_id = u.finding_id}
    IN  IF Truthy(status_) /\ status_ \notin VALID_STATUSES
        THEN [raised |-> "ValueError", triage |-> t]
        ELSE IF matches = {}
        THEN [raised |-> "ValueError", triage |-> t]
        ELSE LET first == CHOOSE i \in matches : \A j \in matches : i <= j
             IN  [raised |-> None,
                  triage |->
                    [t EXCEPT
                       !.issues[first] = UpdatedIssue(@, status_, u, now),
                       !.updated_at = now]]

ReportFindings ==
    {[finding_id |-> PyStr(FindingIdText("r1", 2)), rule_id |-> "r1",
      severity |-> "Error", message |-> "m1"],
     [finding_id |-> PyNone, rule_id |-> "r1", severity |-> "warning",
      message |-> "m2"],
     [finding_id |-> PyNone, rule_id |-> None, severity |-> None,
      message |-> "m3"]}

TriageReports ==
    {[input_digest |-> "abc", profile |-> "ixbrl-gating", findings |-> findings] :
        findings \in SeqUpTo(ReportFindings, MaxFindings)}

TriageUpdates ==
    [finding_id : {FindingIdText("r1", 1), FindingIdText("r1", 2),
                   FindingIdText("zz", 9)},
     status : {None, " ", "Resolved", " blocked ", "closed"},
     assignee : {None, "bob@example.com"},
     note : {"", "n1"}]

InitTriage ==
    /\ obj = NoValue
    /\ obj2 = NoValue
    /\ Unset

\* init_triage_from_report is called on a report; update counts the
\* operations, which is also what the clock shows
InitTriageFromReport ==
    /\ triage = NoValue
    /\ \E report \in TriageReports, owner \in {None, "alice@example.com"} :
         /\ triage' = init_triage_from_report(report, owner, 0)
         /\ update' = [applied |-> 0, report |-> report, owner |-> owner]
    /\ UNCHANGED <<firstVars, laterVars, ruleRun, engine, calls, readiness,
                   service, response>>

\* apply_triage_update is called on the triage
ApplyTriageUpdate ==
    /\ triage # NoValue
    /\ update.applied < MaxUpdates
    /\ \E u \in TriageUpdates :
         LET Applied(result) ==
               /\ triage' = result.triage
               /\ update' = [applied |-> update.applied + 1, update |-> u,
                             before |-> triage, raised |-> result.raised]
         IN  Applied(apply_triage_update(triage, u, update.applied + 1))
    /\ UNCHANGED <<firstVars, laterVars, ruleRun, engine, calls, readiness,
                   service, response>>

NextTriage == InitTriageFromReport \/ ApplyTriageUpdate

SpecTriage == InitTriage /\ [][NextTriage]_vars

\* The frame of the latest update: whether it was refused is decided by
\* refused; a refused update, and one that names no issue, raised ValueError
\* and left the triage as it was; any other changed nothing outside the first
\* issue with its finding_id and the triage's updated_at
UpdateIsLocal(refused) ==
    LET before == update.before
        u == update.update
        matches == {i \in DOMAIN before.issues :
                      before.issues[i].finding_id = u.finding_id}
    IN  IF refused \/ matches = {}
        THEN update.raised = "ValueError" /\ triage = before
        ELSE /\ update.raised = None
             /\ DOMAIN triage.issues = DOMAIN before.issues
             /\ [triage EXCEPT !.issues = before.issues,
                               !.updated_at = before.updated_at] = before
             /\ \E k \in matches :
                  /\ \A j \in matches : k <= j
                  /\ \A i \in DOMAIN before.issues :
                       i # k => triage.issues[i] = before.issues[i]
                  /\ [triage.issues[k] EXCEPT
                        !.status = before.issues[k].status,
                        !.assignee = before.issues[k].assignee,
                        !.notes = before.issues[k].notes,
                        !.last_updated_at = before.issues[k].last_updated_at]
                       = before.issues[k]
                  /\ Len(triage.issues[k].notes) - Len(before.issues[k].notes)
                       \in {0, 1}
                  /\ SubSeq(triage.issues[k].notes, 1, Len(before.issues[k].notes))
                       = before.issues[k].notes

\* init_triage_from_report made one open issue per finding, and every issue's
\* status has stayed in VALID_STATUSES
IssuesAreOpenOrValid ==
    /\ Len(triage.issues) = Len(update.report.findings)
    /\ update.applied = 0 =>
         \A i \in DOMAIN triage.issues : triage.issues[i].status = "open"
    /\ \A i \in DOMAIN triage.issues : triage.issues[i].status \in VALID_STATUSES

\* C27 as stated: init_triage_from_report creates one issue per finding, all
\* open; an update whose status is given and is not a member of
\* VALID_STATUSES, or whose finding_id is unknown, raises ValueError and leaves
\* the triage unchanged; any other update changes only the first matching
\* issue and updated_at; every status stays in VALID_STATUSES.
C27_AsStated ==
    triage # NoValue =>
      /\ update.applied = 0 => IssuesAreOpenOrValid
      /\ \A i \in DOMAIN triage.issues : triage.issues[i].status \in VALID_STATUSES
      /\ update.applied > 0 =>
           UpdateIsLocal(/\ update.update.status # None
                         /\ update.update.status \notin VALID_STATUSES)

\* C27, amended: the status of an update is stripped and lower-cased before it
\* is looked up, and an empty or blank status means no status change; an
\* update is refused for its status exactly when the status so normalised is
\* non-empty and not a member of VALID_STATUSES. For a report whose findings
\* are objects, init_triage_from_report creates one issue per finding, all
\* open; a refused update, and one with an unknown finding_id, raises
\* ValueError and leaves the triage unchanged; any other update changes only
\* the first matching issue (status, assignee, at most one appended note,
\* last_updated_at) and updated_at; every status stays in VALID_STATUSES.
C27_TriageUpdatesLocal ==
    triage # NoValue =>
      /\ update.applied = 0 => IssuesAreOpenOrValid
      /\ \A i \in DOMAIN triage.issues : triage.issues[i].status \in VALID_STATUSES
      /\ update.applied > 0 =>
           UpdateIsLocal(/\ update.update.status # None
                         /\ Lower(Strip(update.update.status))
                              \notin (VALID_STATUSES \cup {""}))

\* An update with the status "Resolved" was applied to the first of two
\* issues that share a finding_id: the first is resolved, the second is open
C27_Witness ==
    /\ triage # NoValue
    /\ update.applied > 0
    /\ update.update.status = "Resolved"
    /\ update.raised = None
    /\ Len(triage.issues) = 2
    /\ triage.issues[1].finding_id = triage.issues[2].finding_id
    /\ triage.issues[1].status = "resolved"
    /\ triage.issues[2].status = "open"

\* The check of the given id in the latest verification
CheckOf(check_id) ==
    LET checks == verification.value.checks
    IN  checks[CHOOSE i \in 1..Len(checks) : checks[i].check_id = check_id]

\* C28: a signed certificate is tamper-evident. Once one payload field of a
\* certificate produced by sign_certificate has had its value changed, or has
\* been removed, or a field has been added, the signature block left as it
\* was, verify_certificate returns verified = false with any secret and with
\* none, and its payload digest check has failed; and sign_certificate called
\* again on a signed certificate with the same secret reproduces the
\* payload_digest and the signature value, the payload being unchanged.
C28_TamperEvident ==
    /\ (verification # NoValue /\ signed # NoValue
          /\ signed.edit \in {"payload", "verdict"}) =>
         /\ verification.raised = None
         /\ ~verification.value.verified
         /\ ~CheckOf("signature_payload_digest").passed
    /\ (signed # NoValue /\ signed.edit = "resigned") =>
         /\ signed.raised = None
         /\ signed.value["signature"]["payload_digest"]
              = signed.original["signature"]["payload_digest"]
         /\ signed.value["signature"]["value"]
              = signed.original["signature"]["value"]
         /\ _unsigned_certificate(signed.value) = _unsigned_certificate(signed.original)

\* A certificate whose issued_at was changed after signing was verified with
\* the secret that signed it: every check but the payload digest and the
\* signature value passed, and verified is false
C28_Witness ==
    /\ verification # NoValue /\ signed # NoValue
    /\ signed.edit = "payload"
    /\ "issued_at" \in DOMAIN signed.value
    /\ signed.value["issued_at"] = PyStr("c")
    /\ signed.value["verdict"] = PyStr("clean")
    /\ "extra" \notin DOMAIN signed.value
    /\ verification.signing_secret = signed.secret
    /\ verification.raised = None
    /\ ~verification.value.verified
    /\ \A i \in 1..Len(verification.value.checks) :
         verification.value.checks[i].passed
           <=> verification.value.checks[i].check_id
                 \notin {"signature_payload_digest", "signature_value_match"}

\* The bundle that was replayed is the bundle as built with its status, its
\* summary, its findings digest or its list of claims altered
VerdictAltered ==
    /\ replay.proof # proof.value
    /\ \E key \in {"status", "report_summary", "findings_digest", "arithmetic_claims"} :
         /\ replay.proof[key] # proof.value[key]
         /\ WithField(replay.proof, key, proof.value[key]) = proof.value

\* C29: a replay with a report that returns verified = true confirms the
\* verdict the bundle records: the bundle's status is the report's status, its
\* report_summary is the report's summary and its findings_digest is the
\* digest of the report's findings; and a bundle whose status, summary,
\* findings digest or list of claims was altered after build_proof_bundle
\* does not verify.
C29_ReplayConfirmsVerdict ==
    Replayed =>
      /\ (replay.report # PyNone /\ replay.value.verified) =>
           /\ replay.proof["status"] = PyStr(replay.report.status)
           /\ replay.proof["report_summary"] = replay.report.summary
           /\ replay.proof["findings_digest"]
                = Sha256(_stable_json_bytes([findings |-> replay.report.findings]))
      /\ VerdictAltered => ~replay.value.verified

-----------------------------------------------------------------------------
(* SpecLean: the arithmetic of one claim of _balance_sheet_claims on Decimals
   of any length, as Decimal(int) and Decimal(txt) build them from fact
   values, and the theorem _build_lean_script writes for the claim.  A Python
   int is a Decimal of exponent 0. *)

\* a + b on two digit sequences of one length: a position takes a carry when
\* a position to its right overflows and every position between them holds 9
AddDigits(a, b) ==
    LET CarryInto(i) ==
            \E j \in (i + 1)..Len(a) :
               /\ a[j] + b[j] >= 10
               /\ \A k \in (i + 1)..(j - 1) : a[k] + b[k] = 9
        sum == [i \in 1..Len(a) |->
                  (a[i] + b[i] + (IF CarryInto(i) THEN 1 ELSE 0)) % 10]
    IN  IF CarryInto(0) THEN <<1>> \o sum ELSE sum

\* a - b on two digit sequences of one length, a >= b: a position lends when
\* a position to its right is short and every position between them is even
SubDigits(a, b) ==
    LET BorrowFrom(i) ==
            \E j \in (i + 1)..Len(a) :
               /\ a[j] < b[j]
               /\ \A k \in (i + 1)..(j - 1) : a[k] = b[k]
    IN  [i \in 1..Len(a) |->
           (a[i] - b[i] - (IF BorrowFrom(i) THEN 1 ELSE 0) + 10) % 10]

\* a <= b on two digit sequences of one length
DigitsLeq(a, b) ==
    \/ a = b
    \/ \E i \in 1..Len(a) : a[i] < b[i] /\ \A j \in 1..(i - 1) : a[j] = b[j]

Negated(x) == Decimal(1 - x.sign, x.digits, x.exp)

\* x + y with every digit kept
ExactSum(x, y) ==
    LET exp == Min(x.exp, y.exp)
        xd == x.digits \o Zeros(x.exp - exp)
        yd == y.digits \o Zeros(y.exp - exp)
        n == IF Len(xd) >= Len(yd) THEN Len(xd) ELSE Len(yd)
        a == Zeros(n - Len(xd)) \o xd
        b == Zeros(n - Len(yd)) \o yd
    IN  IF x.sign = y.sign THEN Decimal(x.sign, AddDigits(a, b), exp)
        ELSE IF a = b THEN Decimal(0, <<0>>, exp)
        ELSE IF DigitsLeq(b, a) THEN Decimal(x.sign, SubDigits(a, b), exp)
        ELSE Decimal(y.sign, SubDigits(b, a), exp)

\* x + y, x - y and abs(x) of Decimal: rounded to the context precision
DecimalSum(x, y) == ContextRound(ExactSum(x, y))

DecimalDifference(x, y) == ContextRound(ExactSum(x, Negated(y)))

DecimalAbs(x) == ContextRound(Decimal(0, x.digits, x.exp))

\* x <= y: comparisons are exact
DecimalLeq(x, y) ==
    LET d == Reduced(ExactSum(x, Negated(y)))
    IN  d.digits = <<0>> \/ d.sign = 1

\* Decimal(str(_rounding_tolerance(decimals))) for decimals None ("0.0") and
\* 0 ("0.5")
ToleranceDecimal(decimals) ==
    IF decimals = PyNone THEN Decimal(0, <<0, 0>>, -1) ELSE Decimal(0, <<0, 5>>, -1)

\* max(_decimal_places(item) for item in all_values)
RECURSIVE MaxPlaces(_)
MaxPlaces(all_values) ==
    IF all_values = <<>> THEN 0
    ELSE LET Larger(first, others) == IF first > others THEN first ELSE others
         IN  Larger(_decimal_places(Head(all_values)).value,
                    MaxPlaces(Tail(all_values)))

\* The body of the loop of _balance_sheet_claims for the three Decimals of a
\* context and the decimals of its three facts: the claim, or the ValueError
\* of _to_scaled_int
ScaledClaim(assets_val, liabilities_val, equity_val, decimals) ==
    LET tolerance == DecimalSum(DecimalSum(ToleranceDecimal(decimals[1]),
                                           ToleranceDecimal(decimals[2])),
                                ToleranceDecimal(decimals[3]))
        difference == DecimalAbs(DecimalDifference(
                                   assets_val, DecimalSum(liabilities_val, equity_val)))
        scale_power == MaxPlaces(<<assets_val, liabilities_val, equity_val,
                                   tolerance, difference>>)
        Scaled(v) == _to_scaled_int(v, scale_power)
    IN  IF \E v \in {assets_val, liabilities_val, equity_val, difference, tolerance} :
              Scaled(v).raised # None
        THEN [raised |-> "ValueError", claim |-> NoValue]
        ELSE [raised |-> None,
              claim |-> [assets |-> assets_val, liabilities |-> liabilities_val,
                         equity |-> equity_val, difference |-> difference,
                         tolerance |-> tolerance,
                         within_tolerance |-> DecimalLeq(difference, tolerance),
                         lean |-> [scale_power |-> scale_power,
                                   assets_scaled |-> Scaled(assets_val).value,
                                   liabilities_scaled |-> Scaled(liabilities_val).value,
                                   equity_scaled |-> Scaled(equity_val).value,
                                   difference_scaled |-> Scaled(difference).value,
                                   tolerance_scaled |-> Scaled(tolerance).value]]]

\* Int.natAbs (a - (b + c)) on Python ints
absDiff(a, b, c) ==
    LET d == ExactSum(a, Negated(ExactSum(b, c)))
    IN  Decimal(0, d.digits, d.exp)

\* The theorem _build_lean_script writes for a claim,
\* absDiff assets liabilities equity <= tolerance, as the truth value that
\* lean decides
LeanTheorem(claim) ==
    DecimalLeq(absDiff(claim.lean.assets_scaled, claim.lean.liabilities_scaled,
                       claim.lean.equity_scaled),
               claim.lean.tolerance_scaled)

\* Decimals of fact values: 3, 1.5, -3, 1, 0.5, 2, 0, and values of
\* DecimalPrec + 1 digits: 10^28 + 4, 10^28 and 1.0000000000000000000000000001
LeanAssets ==
    {Decimal(0, <<3>>, 0), Decimal(0, <<1, 5>>, -1), Decimal(1, <<3>>, 0),
     Decimal(0, <<1>> \o Zeros(DecimalPrec - 1) \o <<4>>, 0),
     Decimal(0, <<1>> \o Zeros(DecimalPrec - 1) \o <<1>>, -DecimalPrec)}

LeanLiabilities ==
    {Decimal(0, <<1>>, 0), Decimal(0, <<5>>, -1), Decimal(0, <<4>>, 0),
     Decimal(0, <<1>> \o Zeros(DecimalPrec), 0)}

LeanEquities == {Decimal(0, <<2>>, 0), Decimal(0, <<0>>, 0), Decimal(0, <<1>>, 0)}

InitLean ==
    /\ obj = NoValue
    /\ obj2 = NoValue
    /\ filing = NoValue /\ filing2 = NoValue /\ roundTrip = NoValue
    /\ run = NoValue /\ run2 = NoValue /\ issued = NoValue /\ pack = NoValue
    /\ http = NoValue /\ cert = NoValue /\ signed = NoValue
    /\ verification = NoValue /\ proof = NoValue /\ replay = NoValue
    /\ cycleRun = NoValue
    /\ UnsetLast
    /\ scaling \in [assets : LeanAssets, liabilities : LeanLiabilities,
                    equity : LeanEquities,
                    decimals : {<<PyNone, PyNone, PyNone>>, <<PyInt(0), PyNone, PyNone>>,
                                <<PyInt(0), PyInt(0), PyInt(0)>>},
                    called : {None}, result : {NoValue}, theorem : {NoValue}]

\* One turn of the loop of _balance_sheet_claims
BuildScaledClaim ==
    /\ scaling.called = None
    /\ scaling' = [scaling EXCEPT
                     !.called = "_balance_sheet_claims",
                     !.result = ScaledClaim(scaling.assets, scaling.liabilities,
                                            scaling.equity, scaling.decimals)]
    /\ UNCHANGED <<obj, obj2, filing, filing2, roundTrip, run, run2, issued, pack,
                   http, cert, signed, verification, proof, replay, cycleRun>>
    /\ UNCHANGED lastVars

\* _build_lean_script writes the theorem of the claim and lean decides it
BuildLeanScript ==
    /\ scaling.called = "_balance_sheet_claims"
    /\ scaling.result.raised = None
    /\ scaling' = [scaling EXCEPT
                     !.called = "_build_lean_script",
                     !.theorem = LeanTheorem(scaling.result.claim)]
    /\ UNCHANGED <<obj, obj2, filing, filing2, roundTrip, run, run2, issued, pack,
                   http, cert, signed, verification, proof, replay, cycleRun>>
    /\ UNCHANGED lastVars

NextLean == BuildScaledClaim \/ BuildLeanScript

SpecLean == InitLean /\ [][NextLean]_vars

\* C30: the scaled-integer form of a claim built by build_proof_bundle is
\* equivalent to its decimal form: difference_scaled is
\* |assets_scaled - (liabilities_scaled + equity_scaled)|, and the integer
\* proposition |assets_scaled - (liabilities_scaled + equity_scaled)| <=
\* tolerance_scaled, which is the theorem of the generated script, holds
\* exactly when within_tolerance is true.
C30_ScaledFormEquivalent ==
    (scaling.called # None /\ scaling.result.raised = None) =>
      LET claim == scaling.result.claim
          lean == claim.lean
      IN  /\ DecimalEq(lean.difference_scaled,
                       absDiff(lean.assets_scaled, lean.liabilities_scaled,
                               lean.equity_scaled))
          /\ DecimalLeq(absDiff(lean.assets_scaled, lean.liabilities_scaled,
                                lean.equity_scaled),
                        lean.tolerance_scaled)
               <=> claim.within_tolerance
          /\ scaling.called = "_build_lean_script" =>
               (scaling.theorem <=> claim.within_tolerance)

====
